---- MODULE Spec2Model ----
(* Model of the plasma-stream object transfer engine.                      *)
(*                                                                         *)
(* Server B serves SYNC requests (handler -> dispatcher -> peer tasks ->   *)
(* receivers); server A serves the COPY/TAKE requests that B's peer tasks  *)
(* (and other peers) send to it (handler -> sender).  Each server has its  *)
(* own Plasma store and its own coordination set.                          *)
EXTENDS Integers, Sequences, FiniteSets, TLC

(***************************************************************************)
(* Program constants (plasma-stream/src/lib.rs)                            *)
(***************************************************************************)
MAX_META_SIZE == 65536
BEGIN == 0
SUCCESS == 65
OB_META_TOO_LARGE_ERR == 80
OB_DATA_TOO_LARGE_ERR == 81
OB_DATA_ZERO_LENGTH_ERR == 82
PLASMA_STORE_ERR == 96
PEER_PLASMA_STORE_ERR == 97
PEER_REQUEST_PANICKED == 98
OB_DELETION_SCHEDULED_ERR == 112
OB_NOT_FOUND_ERR == 113
OB_ALREADY_RECEIVING_ERR == 128
OB_ALREADY_IN_STORE_ERR == 129
PEER_CONNECTION_ERR == 144
CLIENT_CONNECTION_ERR == 145

\* MAX_DATA_SIZE = 2^44 as the six little-endian bytes of a 48-bit value
MAX_DATA_SIZE == <<0, 0, 0, 0, 0, 16>>

(***************************************************************************)
(* Bounds of the model                                                     *)
(***************************************************************************)
\* environment faults (store errors, broken connections) per behaviour
MaxFaults == 1
\* largest data size (bytes) the store of server B can allocate
StoreCapacity == 70000

(***************************************************************************)
(* Byte buffers and byte streams: run-length encoded sequences of bytes,   *)
(* <<b, n>> standing for n bytes of value b; kept canonical (no empty run, *)
(* no two adjacent runs of the same byte).                                 *)
(***************************************************************************)
Run(b, n) == IF n = 0 THEN <<>> ELSE << <<b, n>> >>

\* the operands are bound as values, so that each is evaluated once
Cat(s, t) ==
    CHOOSE r \in {IF a = <<>> THEN b
                  ELSE IF b = <<>> THEN a
                  ELSE IF a[Len(a)][1] = b[1][1]
                       THEN SubSeq(a, 1, Len(a) - 1)
                            \o << <<b[1][1], a[Len(a)][2] + b[1][2]>> >> \o Tail(b)
                       ELSE a \o b :
                  a \in {s}, b \in {t}} : TRUE

\* the number of bytes of the runs s[lo..hi]
RECURSIVE RunsLen(_, _, _)
RunsLen(s, lo, hi) ==
    IF lo > hi THEN 0
    ELSE IF lo = hi THEN s[lo][2]
    ELSE RunsLen(s, lo, (lo + hi) \div 2) + RunsLen(s, (lo + hi) \div 2 + 1, hi)

BufLen(s) == RunsLen(s, 1, Len(s))

RECURSIVE TakeBytes(_, _)
TakeBytes(s, n) ==
    IF n = 0 \/ s = <<>> THEN <<>>
    ELSE IF s[1][2] <= n THEN <<s[1]>> \o TakeBytes(Tail(s), n - s[1][2])
    ELSE << <<s[1][1], n>> >>

RECURSIVE DropBytes(_, _)
DropBytes(s, n) ==
    IF n = 0 \/ s = <<>> THEN s
    ELSE IF s[1][2] <= n THEN DropBytes(Tail(s), n - s[1][2])
    ELSE << <<s[1][1], s[1][2] - n>> >> \o Tail(s)

\* the k-th byte (from 0) of a stream holding more than k bytes
ByteAt(s, k) == DropBytes(s, k)[1][1]

RECURSIVE BytesOf(_)
BytesOf(bs) ==
    CHOOSE r \in {IF b = <<>> THEN <<>> ELSE Cat(Run(b[1], 1), BytesOf(Tail(b))) :
                  b \in {bs}} : TRUE

(***************************************************************************)
(* Object header: u64 = meta_size | (data_size << 16), little endian       *)
(***************************************************************************)
RECURSIVE BitOr(_, _)
BitOr(a, b) ==
    IF a = 0 THEN b
    ELSE IF b = 0 THEN a
    ELSE (IF a % 2 = 1 \/ b % 2 = 1 THEN 1 ELSE 0) + 2 * BitOr(a \div 2, b \div 2)

\* sender.rs send_object: the eight bytes written by write_u64_le(header)
HeaderBytes(meta_size, data_size) ==
    LET lo == meta_size % 65536
        hi == BitOr(meta_size \div 65536, data_size)
    IN  << lo % 256, lo \div 256,
           hi % 256, (hi \div 256) % 256, (hi \div 65536) % 256,
           (hi \div 16777216) % 256, 0, 0 >>

\* receiver.rs read_object_header: (header as u16), (header >> 16); the data
\* size is kept as its six little-endian bytes
DecodeHeader(h) ==
    [ meta_size |-> h[1] + 256 * h[2],
      data_size |-> << h[3], h[4], h[5], h[6], h[7], h[8] >> ]

U48IsZero(d) == \A k \in 1..6 : d[k] = 0

RECURSIVE U48Greater(_, _, _)
U48Greater(a, b, k) ==
    IF k = 0 THEN FALSE
    ELSE IF a[k] # b[k] THEN a[k] > b[k]
    ELSE U48Greater(a, b, k - 1)

\* the value fits the integers of the model
U48Small(d) == d[5] = 0 /\ d[6] = 0 /\ d[4] < 128
U48ToNat(d) == d[1] + 256 * d[2] + 65536 * d[3] + 16777216 * d[4]

\* a size taken from a buffer (usize) as the six bytes of a 48-bit value
NatToU48(n) ==
    << n % 256, (n \div 256) % 256, (n \div 65536) % 256,
       (n \div 16777216) % 256, 0, 0 >>

\* a buffer of one run too long for the integers of the model: the third
\* component gives its length as the six bytes of a 48-bit value
HugeRun(b, d) == << <<b, 0, d>> >>

\* the length of a buffer (slice::len) as the six bytes of a 48-bit value
Len48(s) ==
    IF s # <<>> /\ Len(s[1]) = 3 THEN s[1][3] ELSE NatToU48(BufLen(s))

(***************************************************************************)
(* The Plasma store as seen through plasma-store/src/lib.rs.               *)
(* An entry is absent, created (mutable, invisible) or sealed; refs counts *)
(* the ObjectBuffers the server's client holds on it; del records a delete *)
(* issued while the client still held the object.                          *)
(***************************************************************************)
Ids == {"X", "Y"}

Absent == [state |-> "absent", meta |-> <<>>, data |-> <<>>, refs |-> 0, del |-> FALSE]

Sealed(meta, data) ==
    [state |-> "sealed", meta |-> meta, data |-> data, refs |-> 0, del |-> FALSE]

EmptyStore == [id \in Ids |-> Absent]

\* a store that also shows objects that are not sealed yet
StoreContainsUnsealed(st, id) == st[id].state # "absent"

\* PlasmaClient::contains
StoreContains(st, id) == st[id].state = "sealed"

\* PlasmaClient::contains_many
ContainsMany(st, ids) == SelectSeq(ids, LAMBDA id : StoreContains(st, id))

\* PlasmaClient::get_many: one entry per id, None for an object that is not
\* sealed before the timeout; every returned buffer holds a reference
None == [id |-> "none", meta |-> <<>>, data |-> <<>>]

GetMany(st, ids) ==
    [ objects |-> [k \in 1..Len(ids) |->
                     IF StoreContains(st, ids[k])
                     THEN [id |-> ids[k], meta |-> st[ids[k]].meta, data |-> st[ids[k]].data]
                     ELSE None],
      store   |-> [id \in Ids |->
                     IF StoreContains(st, id) /\ \E k \in 1..Len(ids) : ids[k] = id
                     THEN [st[id] EXCEPT !.refs = @ + 1]
                     ELSE st[id]] ]

\* PlasmaClient::create (the caller has checked that the id is absent)
StoreCreate(st, id, data_size, meta) ==
    [st EXCEPT ![id] = [state |-> "created", meta |-> meta,
                        data |-> Run(0, data_size), refs |-> 1, del |-> FALSE]]

\* writing through ObjectBuffer::data_mut
StoreWrite(st, id, bytes) == [st EXCEPT ![id].data = bytes]

\* ObjectBuffer::seal
StoreSeal(st, id) == [st EXCEPT ![id].state = "sealed"]

\* a delete that skips every object still in use, also by this client
StoreDeleteUnusedOnly(st, id) ==
    IF st[id].state = "sealed" /\ st[id].refs = 0 THEN [st EXCEPT ![id] = Absent] ELSE st

\* PlasmaClient::delete: removes a sealed object nobody uses; a sealed
\* object this client still holds goes when its last buffer is released;
\* anything else is a no operation
StoreDelete(st, id) ==
    IF st[id].state # "sealed" THEN st
    ELSE IF st[id].refs = 0 THEN [st EXCEPT ![id] = Absent]
    ELSE [st EXCEPT ![id].del = TRUE]

\* PlasmaClient::delete_many
RECURSIVE DeleteMany(_, _)
DeleteMany(st, ids) ==
    IF ids = <<>> THEN st ELSE DeleteMany(StoreDelete(st, ids[1]), Tail(ids))

\* impl Drop for ObjectBuffer: release the reference
StoreRelease(st, id) ==
    IF st[id].refs = 0 THEN st
    ELSE IF st[id].refs = 1 /\ st[id].del THEN [st EXCEPT ![id] = Absent]
    ELSE [st EXCEPT ![id].refs = @ - 1]

RECURSIVE ReleaseMany(_, _)
ReleaseMany(st, ids) ==
    IF ids = <<>> THEN st ELSE ReleaseMany(StoreRelease(st, ids[1]), Tail(ids))

SeqToSet(s) == {s[k] : k \in 1..Len(s)}

(***************************************************************************)
(* Errors and their response codes (plasma-stream/src/errors.rs)           *)
(***************************************************************************)
NoCode == 256

\* ObjectSendError::response_code
SendResponseCode(err) ==
    CASE err = "ObjectDeletionScheduled" -> OB_DELETION_SCHEDULED_ERR
      [] err = "ObjectMetaTooLarge"      -> OB_META_TOO_LARGE_ERR
      [] err = "ObjectDataTooLarge"      -> OB_DATA_TOO_LARGE_ERR
      [] err = "ObjectsNotFound"         -> OB_NOT_FOUND_ERR
      [] err = "StoreError"              -> PLASMA_STORE_ERR
      [] err = "ConnectionError"         -> NoCode

RecvErr(e, code) == [e |-> e, code |-> code]

\* a response code that hands on every status byte of the peer as it is
RecvResponseCodeAsSent(err) ==
    CASE err.e = "AlreadyReceiving"     -> OB_ALREADY_RECEIVING_ERR
      [] err.e = "AlreadyInStore"       -> OB_ALREADY_IN_STORE_ERR
      [] err.e = "ObjectMetaTooLarge"   -> OB_META_TOO_LARGE_ERR
      [] err.e = "ObjectDataTooLarge"   -> OB_DATA_TOO_LARGE_ERR
      [] err.e = "ZeroLengthObjectData" -> OB_DATA_ZERO_LENGTH_ERR
      [] err.e = "PeerError"            -> err.code
      [] err.e = "StoreError"           -> PLASMA_STORE_ERR
      [] err.e = "ConnectionError"      -> PEER_CONNECTION_ERR

\* ObjectReceiveError::response_code
RecvResponseCode(err) ==
    CASE err.e = "AlreadyReceiving"     -> OB_ALREADY_RECEIVING_ERR
      [] err.e = "AlreadyInStore"       -> OB_ALREADY_IN_STORE_ERR
      [] err.e = "ObjectMetaTooLarge"   -> OB_META_TOO_LARGE_ERR
      [] err.e = "ObjectDataTooLarge"   -> OB_DATA_TOO_LARGE_ERR
      [] err.e = "ZeroLengthObjectData" -> OB_DATA_ZERO_LENGTH_ERR
      [] err.e = "PeerError"            ->
            IF err.code = PLASMA_STORE_ERR THEN PEER_PLASMA_STORE_ERR ELSE err.code
      [] err.e = "StoreError"           -> PLASMA_STORE_ERR
      [] err.e = "ConnectionError"      -> PEER_CONNECTION_ERR

NoRecvErr == RecvErr("none", 0)
SyncErr(s, r) == [s |-> s, r |-> r]

\* SyncError::response_code
SyncResponseCode(err) ==
    CASE err.s = "PeerConnectionFailed"  -> PEER_CONNECTION_ERR
      [] err.s = "PeerRequestNotSent"    -> PEER_CONNECTION_ERR
      [] err.s = "ReceiverError"         -> RecvResponseCode(err.r)
      [] err.s = "PeerRequestPanicked"   -> PEER_REQUEST_PANICKED
      [] err.s = "ClientConnectionError" -> CLIENT_CONNECTION_ERR
      [] err.s = "PeerAddressIsSelf"     -> PEER_CONNECTION_ERR

\* the value a JoinHandle yields: Ok(Ok(())), Ok(Err(err)) or Err(JoinError)
NoResult == [kind |-> "none", err |-> SyncErr("none", NoRecvErr)]
OkResult == [kind |-> "ok", err |-> SyncErr("none", NoRecvErr)]
ErrResult(err) == [kind |-> "err", err |-> err]
PanicResult == [kind |-> "panic", err |-> SyncErr("none", NoRecvErr)]

(***************************************************************************)
(* Coordination sets (receiver.rs, sender.rs)                              *)
(***************************************************************************)
\* a duplicate check that never finds an id
ReceivingDuplicatesNone(recv, ids) == <<>>

\* ObjectReceiver::add_to_receiving: the ids found in the set already
ReceivingDuplicates(recv, ids) == SelectSeq(ids, LAMBDA id : id \in recv)

\* a registration that checks for duplicates but inserts nothing
AddToReceivingNothing(recv, ids) == recv

\* ObjectReceiver::add_to_receiving: the set after a successful call
AddToReceiving(recv, ids) == recv \cup SeqToSet(ids)

\* a drop that removes only the first id of the receiver
DropReceiverFirstOnly(recv, ids) == recv \ {ids[1]}

\* impl Drop for ObjectReceiver
DropReceiver(recv, ids) == recv \ SeqToSet(ids)

\* ObjectSender::check_deleting: the ids found in the set already
InDeletingNone(del, ids) == <<>>

InDeleting(del, ids) == SelectSeq(ids, LAMBDA id : id \in del)

\* ObjectSender::check_deleting: the set after a successful call
CheckDeleting(del, ids, delete_after_send) ==
    IF delete_after_send THEN del \cup SeqToSet(ids) ELSE del

\* impl Drop for ObjectSender
DropSender(del, ids, delete_after_send) ==
    IF delete_after_send THEN del \ SeqToSet(ids) ELSE del

(***************************************************************************)
(* Workloads                                                               *)
(***************************************************************************)
Self == "B"        \* local address of the client sockets of server B
Peer == "A"        \* a plasma-stream server
Foreign == "P"     \* any other TCP endpoint

Copy(from, ids) == [type |-> "COPY", from |-> from, objects |-> ids]
Take(from, ids) == [type |-> "TAKE", from |-> from, objects |-> ids]
Direct(delete_after_send, ids) == [delete |-> delete_after_send, ids |-> ids]

\* first bytes a foreign endpoint may answer with
ForeignStatus == {BEGIN, SUCCESS, PLASMA_STORE_ERR, OB_NOT_FOUND_ERR}

ObjX == Sealed(Run(1, 4), Run(2, 16))
ObjY == Sealed(<<>>, Run(3, 2))
StoreXY == [id \in Ids |-> IF id = "X" THEN ObjX ELSE ObjY]

\* an object whose metadata is exactly MAX_META_SIZE bytes long
ObjBigMeta == Sealed(Run(1, MAX_META_SIZE), Run(2, 1))
StoreBigMeta == [id \in Ids |-> IF id = "X" THEN ObjBigMeta ELSE ObjY]

\* objects over the limits: metadata of MAX_META_SIZE + 1 bytes, data of
\* MAX_DATA_SIZE + 1 bytes
ObjOverMeta == Sealed(Run(1, MAX_META_SIZE + 1), Run(2, 1))
ObjOverData == Sealed(<<>>, HugeRun(3, <<1, 0, 0, 0, 0, 16>>))
StoreOversize == [id \in Ids |-> IF id = "X" THEN ObjOverMeta ELSE ObjOverData]

Scenario(syncs, ext, a, b) == [syncs |-> syncs, ext |-> ext, storeA |-> a, storeB |-> b]

Scenarios ==
    { Scenario(<< <<Copy(Peer, <<"X", "Y">>)>>, <<Copy(Peer, <<"X">>)>>, <<Copy(Peer, <<"X">>)>> >>,
               <<>>, StoreXY, EmptyStore),
      Scenario(<<>>, << Direct(TRUE, <<"X">>), Direct(TRUE, <<"X">>), Direct(TRUE, <<"X">>) >>,
               StoreXY, EmptyStore),
      Scenario(<< <<Copy(Peer, <<"X">>), Take(Peer, <<"Y">>)>> >>, <<>>, StoreXY, EmptyStore),
      Scenario(<< <<Copy(Foreign, <<"X">>)>> >>, <<>>, StoreXY, EmptyStore),
      Scenario(<< <<Copy(Self, <<"X">>)>> >>, <<>>, StoreXY, EmptyStore),
      Scenario(<< <<Take(Peer, <<"X">>)>> >>, <<>>, StoreXY, EmptyStore),
      Scenario(<< <<Copy(Peer, <<"Y", "X">>)>> >>, <<>>, StoreBigMeta, EmptyStore),
      Scenario(<< <<Copy(Peer, <<"X">>)>>, <<Copy(Peer, <<"X">>)>> >>, <<>>, StoreXY, EmptyStore),
      Scenario(<< <<Take(Peer, <<"X">>), Copy(Peer, <<"Y">>)>> >>, <<Direct(TRUE, <<"Y", "X">>)>>,
               StoreOversize, EmptyStore),
      Scenario(<<>>, << Direct(FALSE, <<"X">>), Direct(TRUE, <<"X">>) >>, StoreXY, EmptyStore),
      Scenario(<< <<Copy(Peer, <<"X">>), Copy(Self, <<"Y">>)>> >>, <<>>, StoreXY, EmptyStore),
      Scenario(<< <<Copy(Peer, <<"X">>)>> >>, <<>>, EmptyStore, EmptyStore) }

(***************************************************************************)
(* Requests and their wire format (plasma-stream/src/request.rs)           *)
(***************************************************************************)
SYNC_TYPE_ID == 1
COPY_TYPE_ID == 2
TAKE_TYPE_ID == 3
IPV4_TYPE_ID == 4
IPV6_TYPE_ID == 6
OBJECT_ID_BYTES == 20
MAX_OBJECT_ID_LIST_LEN == 65536
MAX_NUM_SYNC_PEERS == 1024

\* enum Request; a PeerRequest is a Copy(from, ids) or Take(from, ids) whose
\* from is a SocketAddr
RequestSync(peer_requests) == [type |-> "SYNC", peers |-> peer_requests, objects |-> <<>>]
RequestCopy(ids) == [type |-> "COPY", peers |-> <<>>, objects |-> ids]
RequestTake(ids) == [type |-> "TAKE", peers |-> <<>>, objects |-> ids]
NoRequest == [type |-> "none", peers |-> <<>>, objects |-> <<>>]

\* SocketAddr::V4: the port and the four octets of the address
SocketAddrV4(port, octets) == [port |-> port, ip |-> octets]

\* the outcome of a read: a value and the bytes left, or an error
ReadOk(v, rest) == [ok |-> TRUE, err |-> "none", val |-> v, rest |-> rest]
ReadErr(e) == [ok |-> FALSE, err |-> e, val |-> <<>>, rest |-> <<>>]

\* AsyncReadExt::read_u8, read_u16_le, read_u32_le on a stream that ends
\* after the bytes of s; a u32 is kept as its low and high 16 bits
ReadU8(s) ==
    IF BufLen(s) < 1 THEN ReadErr("UnexpectedEof")
    ELSE ReadOk(ByteAt(s, 0), DropBytes(s, 1))

ReadU16(s) ==
    IF BufLen(s) < 2 THEN ReadErr("UnexpectedEof")
    ELSE ReadOk(ByteAt(s, 0) + 256 * ByteAt(s, 1), DropBytes(s, 2))

ReadU32(s) ==
    IF BufLen(s) < 4 THEN ReadErr("UnexpectedEof")
    ELSE ReadOk(<<ByteAt(s, 0) + 256 * ByteAt(s, 1), ByteAt(s, 2) + 256 * ByteAt(s, 3)>>,
                DropBytes(s, 4))

\* the `?` operator: go on with K on a value read, return an error as it is
Try(r, K(_)) == IF r.ok THEN K(r) ELSE r

\* a reader that takes the four bytes as a big-endian u32
ReadIpv4AddressBigEndian(s) ==
    Try(ReadU32(s), LAMBDA a :
        ReadOk(<<a.val[2] \div 256, a.val[2] % 256, a.val[1] \div 256, a.val[1] % 256>>,
               a.rest))

\* read_ipv4_address: Ipv4Addr::new(a as u8, (a >> 8) as u8, (a >> 16) as u8,
\* (a >> 24) as u8)
ReadIpv4Address(s) ==
    Try(ReadU32(s), LAMBDA a :
        ReadOk(<<a.val[1] % 256, a.val[1] \div 256, a.val[2] % 256, a.val[2] \div 256>>,
               a.rest))

\* a reader that takes every address family but IPv6 for IPv4
ReadSocketAddrAnyFamily(s) ==
    Try(ReadU8(s), LAMBDA addr_type :
    Try(ReadU16(addr_type.rest), LAMBDA port :
        IF addr_type.val = IPV6_TYPE_ID THEN ReadErr("unimplemented")
        ELSE Try(ReadIpv4Address(port.rest), LAMBDA addr :
                 ReadOk(SocketAddrV4(port.val, addr.val), addr.rest))))

\* read_socket_addr
ReadSocketAddr(s) ==
    Try(ReadU8(s), LAMBDA addr_type :
    Try(ReadU16(addr_type.rest), LAMBDA port :
        IF addr_type.val = IPV4_TYPE_ID
        THEN Try(ReadIpv4Address(port.rest), LAMBDA addr :
                 ReadOk(SocketAddrV4(port.val, addr.val), addr.rest))
        ELSE IF addr_type.val = IPV6_TYPE_ID THEN ReadErr("unimplemented")
        ELSE ReadErr("InvalidPeerAddressType")))

\* read_object_id_list
ReadObjectIdList(s) ==
    Try(ReadU16(s), LAMBDA num_ids :
        IF BufLen(num_ids.rest) < OBJECT_ID_BYTES * num_ids.val
        THEN ReadErr("UnexpectedEof")
        ELSE ReadOk([k \in 1..num_ids.val |->
                        TakeBytes(DropBytes(num_ids.rest, OBJECT_ID_BYTES * (k - 1)),
                                  OBJECT_ID_BYTES)],
                    DropBytes(num_ids.rest, OBJECT_ID_BYTES * num_ids.val)))

\* PeerRequest::read_from
PeerRequestReadFrom(s) ==
    Try(ReadU8(s), LAMBDA request_type :
        IF request_type.val \notin {COPY_TYPE_ID, TAKE_TYPE_ID}
        THEN ReadErr("InvalidPeerRequestType")
        ELSE Try(ReadSocketAddr(request_type.rest), LAMBDA from :
             Try(ReadObjectIdList(from.rest), LAMBDA objects :
                 ReadOk(IF request_type.val = COPY_TYPE_ID
                        THEN Copy(from.val, objects.val) ELSE Take(from.val, objects.val),
                        objects.rest))))

\* the loop of Request::read_from for a SYNC: n more peer requests
RECURSIVE ReadPeerRequests(_, _, _)
ReadPeerRequests(s, n, acc) ==
    IF n = 0 THEN ReadOk(acc, s)
    ELSE Try(PeerRequestReadFrom(s), LAMBDA peer_request :
             ReadPeerRequests(peer_request.rest, n - 1, Append(acc, peer_request.val)))

\* Request::read_from; Ok(None), the answer to a stream that has ended, is
\* the value NoRequest
RequestReadFrom(s) ==
    IF BufLen(s) < 1 THEN ReadOk(NoRequest, s)
    ELSE Try(ReadU8(s), LAMBDA request_type :
        IF request_type.val = SYNC_TYPE_ID
        THEN Try(ReadU16(request_type.rest), LAMBDA num_peer_requests :
             Try(ReadPeerRequests(num_peer_requests.rest, num_peer_requests.val, <<>>),
                 LAMBDA peer_requests : ReadOk(RequestSync(peer_requests.val),
                                               peer_requests.rest)))
        ELSE IF request_type.val \in {COPY_TYPE_ID, TAKE_TYPE_ID}
        THEN Try(ReadObjectIdList(request_type.rest), LAMBDA object_ids :
                 ReadOk(IF request_type.val = COPY_TYPE_ID
                        THEN RequestCopy(object_ids.val) ELSE RequestTake(object_ids.val),
                        object_ids.rest))
        ELSE ReadErr("InvalidRequestType"))

\* AsyncWriteExt::write_u16_le of (n as u16)
U16Bytes(n) == BytesOf(<<(n % 65536) % 256, (n % 65536) \div 256>>)

\* the buffers bufs[lo..hi] one after the other
RECURSIVE Concat(_, _, _)
Concat(bufs, lo, hi) ==
    IF lo > hi THEN <<>>
    ELSE IF lo = hi THEN bufs[lo]
    ELSE Cat(Concat(bufs, lo, (lo + hi) \div 2), Concat(bufs, (lo + hi) \div 2 + 1, hi))

\* write_object_id_list
WriteObjectIdList(object_ids) ==
    Cat(U16Bytes(Len(object_ids)), Concat(object_ids, 1, Len(object_ids)))

\* write_peer_addr for a SocketAddr::V4
WritePeerAddr(peer_addr) ==
    Cat(Cat(Run(IPV4_TYPE_ID, 1), U16Bytes(peer_addr.port)), BytesOf(peer_addr.ip))

\* PeerRequest::write_into
PeerRequestWriteInto(peer_request) ==
    Cat(Cat(Run(IF peer_request.type = "COPY" THEN COPY_TYPE_ID ELSE TAKE_TYPE_ID, 1),
            WritePeerAddr(peer_request.from)),
        WriteObjectIdList(peer_request.objects))

\* Request::write_into
RequestWriteInto(request) ==
    IF request.type = "SYNC"
    THEN Cat(Cat(Run(SYNC_TYPE_ID, 1), U16Bytes(Len(request.peers))),
             Concat([k \in 1..Len(request.peers) |-> PeerRequestWriteInto(request.peers[k])],
                    1, Len(request.peers)))
    ELSE Cat(Run(IF request.type = "COPY" THEN COPY_TYPE_ID ELSE TAKE_TYPE_ID, 1),
             WriteObjectIdList(request.objects))

\* a duplicate check that looks at each list on its own
HasDuplicateInList(seen, object_ids) ==
    Cardinality(SeqToSet(object_ids)) < Len(object_ids)

\* the HashSet::insert loop of validate: some insert finds its id present
HasDuplicate(seen, object_ids) ==
    Cardinality(seen \cup SeqToSet(object_ids)) < Cardinality(seen) + Len(object_ids)

\* PeerRequest::validate
PeerRequestValidate(peer_request) ==
    IF Len(peer_request.objects) = 0 THEN "ObjectIdListTooShort"
    ELSE IF Len(peer_request.objects) > MAX_OBJECT_ID_LIST_LEN THEN "ObjectIdListTooLong"
    ELSE "ok"

\* the ids inserted into unique_objects before the k-th peer request
SeenBefore(peer_requests, k) ==
    UNION {SeqToSet(peer_requests[j].objects) : j \in 1..(k - 1)}

\* the loop of Request::validate over the peer requests of a SYNC: the error
\* of the first peer request at which an iteration returns
ValidatePeerRequests(peer_requests) ==
    LET stops == {k \in 1..Len(peer_requests) :
                    \/ PeerRequestValidate(peer_requests[k]) # "ok"
                    \/ HasDuplicate(SeenBefore(peer_requests, k), peer_requests[k].objects)}
        first == CHOOSE k \in stops : \A j \in stops : k <= j
    IN  IF stops = {} THEN "ok"
        ELSE IF PeerRequestValidate(peer_requests[first]) # "ok"
             THEN PeerRequestValidate(peer_requests[first])
        ELSE "DuplicateObjectIds"

\* Request::validate: "ok" or the RequestError
RequestValidate(request) ==
    IF request.type = "SYNC"
    THEN IF Len(request.peers) = 0 THEN "PeerRequestListTooShort"
         ELSE IF Len(request.peers) > MAX_NUM_SYNC_PEERS THEN "PeerRequestListTooLong"
         ELSE ValidatePeerRequests(request.peers)
    ELSE IF Len(request.objects) = 0 THEN "ObjectIdListTooShort"
         ELSE IF Len(request.objects) > MAX_OBJECT_ID_LIST_LEN THEN "ObjectIdListTooLong"
         ELSE IF HasDuplicate({}, request.objects) THEN "DuplicateObjectIds"
         ELSE "ok"

(***************************************************************************)
(* Requests and byte streams a client may hand to the server               *)
(***************************************************************************)
\* the k-th of a family of distinct 20-byte object ids: three bytes that
\* differ from each other and from zero, then zeros
IdOf(k) == << <<k % 128, 1>>, <<128 + ((k \div 128) % 64), 1>>, <<192 + (k \div 8192), 1>>,
              <<0, OBJECT_ID_BYTES - 3>> >>

\* the ids IdOf(lo), ..., IdOf(hi) in this order
IdList(lo, hi) == [k \in 1..(hi + 1 - lo) |-> IdOf(lo + k - 1)]

Addr1 == SocketAddrV4(8080, <<10, 0, 0, 1>>)
Addr2 == SocketAddrV4(513, <<192, 168, 255, 2>>)

\* short id lists, with and without duplicates
ShortLists == {<<>>, IdList(1, 1), IdList(2, 2), IdList(1, 2), IdList(1, 1) \o IdList(1, 1),
               IdList(1, 2) \o IdList(1, 1)}

\* id lists around MAX_OBJECT_ID_LIST_LEN
LongLists == {IdList(1, MAX_OBJECT_ID_LIST_LEN), IdList(1, MAX_OBJECT_ID_LIST_LEN + 1)}

ShortPeerRequests ==
    {Copy(a, l) : a \in {Addr1, Addr2}, l \in ShortLists}
        \cup {Take(a, l) : a \in {Addr1, Addr2}, l \in ShortLists}

\* n peer requests for one id each, all different
ManyPeerRequests(n) == [k \in 1..n |-> Copy(Addr1, IdList(k, k))]

GivenRequests ==
    {RequestCopy(l) : l \in ShortLists \cup LongLists}
        \cup {RequestTake(l) : l \in ShortLists \cup {IdList(1, MAX_OBJECT_ID_LIST_LEN + 1)}}
        \cup {RequestSync(<<>>)}
        \cup {RequestSync(<<p>>) : p \in ShortPeerRequests}
        \cup {RequestSync(<<p, q>>) : p, q \in ShortPeerRequests}
        \cup {RequestSync(<<Take(Addr1, IdList(1, n))>>) :
                n \in {MAX_OBJECT_ID_LIST_LEN, MAX_OBJECT_ID_LIST_LEN + 1}}
        \cup {RequestSync(ManyPeerRequests(n)) :
                n \in {MAX_NUM_SYNC_PEERS, MAX_NUM_SYNC_PEERS + 1}}
        \cup {RequestSync(Append(ManyPeerRequests(MAX_NUM_SYNC_PEERS - 1),
                                 Take(Addr2, IdList(7, 7))))}

\* byte streams: a type byte, then the body of a SYNC or an id list, built
\* of well-formed and malformed parts, then nothing or one more byte
WireCounts == {<<0, 0>>, <<1, 0>>, <<2, 0>>, <<1, 2>>}
WireIdLists == {<<>>, IdList(1, 1), <<IdOf(1), IdOf(770)>>, <<IdOf(5), IdOf(5)>>}

IdListStreams ==
    {Cat(BytesOf(c), Concat(l, 1, Len(l))) : c \in WireCounts, l \in WireIdLists}

AddrStreams ==
    {Cat(Run(t, 1), Cat(BytesOf(p), BytesOf(ip))) :
        t \in {IPV4_TYPE_ID, IPV6_TYPE_ID, 5}, p \in {<<80, 0>>, <<1, 2>>},
        ip \in {<<10, 1, 2, 255>>, <<9>>}}

PeerRequestStreams ==
    {Cat(Run(t, 1), Cat(a, Cat(BytesOf(c), Concat(l, 1, Len(l))))) :
        t \in {COPY_TYPE_ID, TAKE_TYPE_ID, SYNC_TYPE_ID}, a \in AddrStreams,
        c \in {<<1, 0>>, <<2, 0>>}, l \in WireIdLists}

WellFormedPeerRequestStreams ==
    {PeerRequestWriteInto(p) :
        p \in {Copy(Addr1, IdList(1, 1)), Take(Addr2, IdList(1, 2)),
               Take(Addr1, <<>>), Copy(Addr2, IdList(3, 3))}}

SyncStreams ==
    {Cat(BytesOf(c), b) :
        c \in WireCounts,
        b \in {<<>>} \cup PeerRequestStreams
                \cup {Cat(p, q) : p, q \in WellFormedPeerRequestStreams}}

Streams ==
    {<<>>} \cup
    {Cat(Run(t, 1), Cat(b, tr)) :
        t \in {SYNC_TYPE_ID, COPY_TYPE_ID, TAKE_TYPE_ID, 0},
        b \in SyncStreams \cup IdListStreams,
        tr \in {<<>>, Run(TAKE_TYPE_ID, 1)}}

(***************************************************************************)
(* State                                                                   *)
(***************************************************************************)
VARIABLES
    scen,        \* the requests of this behaviour and the initial stores
    storeA,      \* Plasma store of server A
    storeB,      \* Plasma store of server B
    receiving,   \* Store.receiving of server B
    deleting,    \* Store.deleting of server A
    disp,        \* per client connection of B: the dispatcher of its SYNC and
                 \* where Handler::run stands
    task,        \* per PeerRequest: the spawned process_peer_request task
    snd,         \* per connection to A: the handler and its ObjectSender
    wire,        \* per connection to a peer: bytes in flight towards B
    faults,      \* environment faults injected so far
    sent,        \* request handling: the bytes a client wrote before it closed
    sock,        \* request handling: the bytes the handler has not read yet
    hnd,         \* request handling: the handler, its request and its verdict
    echo,        \* request handling: the bytes write_into gave for the request
    limit_connections, \* listener: the permits available in the semaphore
    listener,    \* listener: where Listener::start and Listener::accept stand
    handlers,    \* listener: per connection slot, the state of its Handler
    bufs,        \* store clients: the ObjectBuffers handed out so far
    call,        \* store clients: the last call of the client API and its result
    life,        \* store clients: per id, what the calls so far did to the object
    locks        \* the mutexes of Store: per mutex, the task that holds its guard

engine == <<scen, storeA, storeB, receiving, deleting, disp, task, snd, wire, faults, locks>>
codec == <<sent, sock, hnd, echo>>
gate == <<limit_connections, listener, handlers>>
api == <<bufs, call, life>>
aux == <<codec, gate, api>>
vars == <<engine, aux>>

Conns == 1..Len(scen.syncs)
Tasks == UNION {{<<c, i>> : i \in 1..Len(scen.syncs[c])} : c \in Conns}
Directs == {<<0, k>> : k \in 1..Len(scen.ext)}
PeerReq(t) == scen.syncs[t[1]][t[2]]
\* connections accepted by server A
Links == {t \in Tasks : PeerReq(t).from = Peer} \cup Directs
\* the COPY or TAKE request read by A's handler on link s
object_ids(s) == IF s[1] = 0 THEN scen.ext[s[2]].ids ELSE PeerReq(s).objects
delete_after_send(s) ==
    IF s[1] = 0 THEN scen.ext[s[2]].delete ELSE PeerReq(s).type = "TAKE"

NewTask == [pc |-> "unborn", idx |-> 0, size |-> 0, result |-> NoResult,
            added |-> FALSE, connected |-> FALSE]
NewSender(pc) == [pc |-> pc, objects |-> <<>>, i |-> 0, passed |-> FALSE, err |-> "none",
                  deleted |-> FALSE]
NewWire == [buf |-> <<>>, closed |-> FALSE, broken |-> FALSE]
\* Store.receiving and Store.deleting, both unlocked
Nobody == <<>>
NoLocks == [receiving |-> Nobody, deleting |-> Nobody]

\* the request handling part at rest
NewHandler(pc, request) == [pc |-> pc, request |-> request, verdict |-> "none", err |-> "none"]
NoEcho == [done |-> FALSE, bytes |-> <<>>, request |-> NoRequest, consumed |-> <<>>]

CodecIdle ==
    /\ sent = <<>>
    /\ sock = <<>>
    /\ hnd = NewHandler("idle", NoRequest)
    /\ echo = NoEcho

\* Listener::start and Listener::accept: the local variable backoff, and the
\* sleeps of the accept call in progress
NewListener(pc) == [pc |-> pc, backoff |-> 1, slept |-> <<>>]

\* no server listening
ListenerIdle ==
    /\ limit_connections = 0
    /\ listener = NewListener("idle")
    /\ handlers = <<>>

\* the outcome of a call of the client API on buffer buf (0 when the call
\* takes an id)
Call(op, client, id, buf, res) ==
    [op |-> op, client |-> client, id |-> id, buf |-> buf, res |-> res]
NoCall == Call("none", 0, "none", 0, "none")

\* no client of the store has called anything
ApiIdle ==
    /\ bufs = <<>>
    /\ call = NoCall
    /\ life = [id \in Ids |-> "none"]

Init ==
    /\ CodecIdle
    /\ ListenerIdle
    /\ ApiIdle
    /\ scen \in Scenarios
    /\ storeA = scen.storeA
    /\ storeB = scen.storeB
    /\ receiving = {}
    /\ deleting = {}
    /\ disp = [c \in Conns |-> [pc |-> "read", response |-> <<>>, err |-> "none",
                               handler |-> "dispatching"]]
    /\ task = [t \in Tasks |-> NewTask]
    /\ snd = [s \in Links |-> NewSender(IF s[1] = 0 THEN "check_deleting" ELSE "idle")]
    /\ wire = [s \in Tasks \cup Directs |-> NewWire]
    /\ faults = 0
    /\ locks = NoLocks

Fault == faults < MaxFaults

(***************************************************************************)
(* Server B: dispatcher (dispatcher.rs)                                    *)
(***************************************************************************)
\* a dispatcher that looks at the address of each peer request as it spawns
\* the task for it
DispatchStartSpawnsUntilSelf(c) ==
    /\ disp[c].pc = "read"
    /\ LET selfs == {i \in 1..Len(scen.syncs[c]) : scen.syncs[c][i].from = Self}
       IN  /\ disp' = IF selfs # {}
                      THEN [disp EXCEPT ![c].pc = "failed", ![c].err = "PeerAddressIsSelf",
                                        ![c].handler = "returned_err"]
                      ELSE [disp EXCEPT ![c].pc = "joining"]
           /\ task' = [t \in Tasks |->
                         IF t[1] = c /\ \A i \in selfs : t[2] < i
                         THEN [task[t] EXCEPT !.pc = "prepare_add"] ELSE task[t]]
    /\ UNCHANGED <<scen, storeA, storeB, receiving, deleting, snd, wire, faults>>

\* Dispatcher::run up to the spawn loop, called by Handler::run for a SYNC
DispatchStart(c) ==
    /\ disp[c].pc = "read"
    /\ IF \E i \in 1..Len(scen.syncs[c]) : scen.syncs[c][i].from = Self
       THEN /\ disp' = [disp EXCEPT ![c].pc = "failed", ![c].err = "PeerAddressIsSelf",
                                   ![c].handler = "returned_err"]
            /\ task' = task
       ELSE /\ disp' = [disp EXCEPT ![c].pc = "joining"]
            /\ task' = [t \in Tasks |->
                          IF t[1] = c THEN [task[t] EXCEPT !.pc = "prepare_add"] ELSE task[t]]
    /\ UNCHANGED <<scen, storeA, storeB, receiving, deleting, snd, wire, faults>>

\* a join loop that takes a panicked task for a finished one
ResponseByteOfResult(result) ==
    CASE result.kind = "ok"    -> SUCCESS
      [] result.kind = "err"   -> SyncResponseCode(result.err)
      [] result.kind = "panic" -> SUCCESS

\* the byte the join loop stores for one JoinHandle
ResponseByte(result) ==
    CASE result.kind = "ok"    -> SUCCESS
      [] result.kind = "err"   -> SyncResponseCode(result.err)
      [] result.kind = "panic" -> PEER_REQUEST_PANICKED

\* a response vector filled in the reverse of the request order
ResponseReversed(c) ==
    [i \in 1..Len(scen.syncs[c]) |->
        ResponseByte(task[<<c, Len(scen.syncs[c]) + 1 - i>>].result)]

\* the response vector built by the join loop
Response(c) == [i \in 1..Len(scen.syncs[c]) |-> ResponseByte(task[<<c, i>>].result)]

\* a dispatcher that answers as soon as one of the tasks has ended, with
\* SUCCESS for the tasks still running
DispatchRespondEarly(c) ==
    /\ disp[c].pc = "joining"
    /\ \E i \in 1..Len(scen.syncs[c]) : task[<<c, i>>].pc = "done"
    /\ disp' = [disp EXCEPT ![c].pc = "done", ![c].handler = "reading",
                   ![c].response = [i \in 1..Len(scen.syncs[c]) |->
                                      IF task[<<c, i>>].pc = "done"
                                      THEN ResponseByte(task[<<c, i>>].result)
                                      ELSE SUCCESS]]
    /\ UNCHANGED <<scen, storeA, storeB, receiving, deleting, task, snd, wire, faults>>

\* Dispatcher::run from the join loop on: all handles awaited, response
\* written; on Ok the loop of Handler::run calls read_from again, on Err run
\* returns the error
DispatchRespond(c) ==
    /\ disp[c].pc = "joining"
    /\ \A i \in 1..Len(scen.syncs[c]) : task[<<c, i>>].pc = "done"
    /\ \/ /\ disp' = [disp EXCEPT ![c].pc = "done", ![c].response = Response(c),
                                   ![c].handler = "reading"]
          /\ faults' = faults
       \/ /\ Fault
          /\ faults' = faults + 1
          /\ disp' = [disp EXCEPT ![c].pc = "failed", ![c].err = "ClientConnectionError",
                                   ![c].handler = "returned_err"]
    /\ UNCHANGED <<scen, storeA, storeB, receiving, deleting, task, snd, wire>>

(***************************************************************************)
(* Server B: peer task and receiver (dispatcher.rs, receiver.rs)           *)
(***************************************************************************)
\* process_peer_request returns: its socket and its receiver are dropped
EndTask(t, result) ==
    /\ task' = [task EXCEPT ![t].pc = "done", ![t].result = result, ![t].added = FALSE]
    /\ receiving' = DropReceiver(receiving, PeerReq(t).objects)

\* build_receiver and the add_to_receiving step of ObjectReceiver::prepare
PrepareAdd(t) ==
    /\ task[t].pc = "prepare_add"
    /\ IF ReceivingDuplicates(receiving, PeerReq(t).objects) # <<>>
       THEN EndTask(t, ErrResult(SyncErr("ReceiverError", RecvErr("AlreadyReceiving", 0))))
       ELSE /\ receiving' = AddToReceiving(receiving, PeerReq(t).objects)
            /\ task' = [task EXCEPT ![t].pc = "prepare_contains", ![t].added = TRUE]
    /\ UNCHANGED <<scen, storeA, storeB, deleting, disp, snd, wire, faults>>

\* the contains_many step of ObjectReceiver::prepare
PrepareContains(t) ==
    /\ task[t].pc = "prepare_contains"
    /\ \/ /\ Fault
          /\ faults' = faults + 1
          /\ EndTask(t, ErrResult(SyncErr("ReceiverError", RecvErr("StoreError", 0))))
       \/ /\ faults' = faults
          /\ IF ContainsMany(storeB, PeerReq(t).objects) # <<>>
             THEN EndTask(t, ErrResult(SyncErr("ReceiverError", RecvErr("AlreadyInStore", 0))))
             ELSE /\ task' = [task EXCEPT ![t].pc = "connect"]
                  /\ receiving' = receiving
    /\ UNCHANGED <<scen, storeA, storeB, deleting, disp, snd, wire>>

\* TcpStream::connect and Request::write_into of process_peer_request
Connect(t) ==
    /\ task[t].pc = "connect"
    /\ \/ /\ Fault
          /\ faults' = faults + 1
          /\ \E e \in {"PeerConnectionFailed", "PeerRequestNotSent"} :
                EndTask(t, ErrResult(SyncErr(e, NoRecvErr)))
          /\ UNCHANGED <<snd, wire>>
       \/ /\ faults' = faults
          /\ task' = [task EXCEPT ![t].pc = "read_status", ![t].connected = TRUE]
          /\ receiving' = receiving
          /\ IF PeerReq(t).from = Peer
             THEN /\ snd' = [snd EXCEPT ![t].pc = "check_deleting"]
                  /\ wire' = wire
             ELSE /\ snd' = snd
                  /\ \E b \in ForeignStatus :
                        wire' = [wire EXCEPT ![t].buf = Run(b, 1), ![t].closed = TRUE]
    /\ UNCHANGED <<scen, storeA, storeB, deleting, disp>>

\* a read that fails on a broken connection only and waits on one that the
\* peer has closed
ReadFailsOnlyBroken(w, n) == w.broken

\* socket.read_* fails: the connection is broken, or the peer has closed it
\* before n bytes have arrived
ReadFails(w, n) == w.broken \/ (w.closed /\ BufLen(w.buf) < n)
ReadReady(w, n) == ~w.broken /\ BufLen(w.buf) >= n

\* ObjectReceiver::run up to the receive loop
ReadStatus(t) ==
    /\ task[t].pc = "read_status"
    /\ \/ /\ ReadFails(wire[t], 1)
          /\ EndTask(t, ErrResult(SyncErr("ReceiverError", RecvErr("ConnectionError", 0))))
          /\ wire' = wire
       \/ /\ ReadReady(wire[t], 1)
          /\ wire' = [wire EXCEPT ![t].buf = DropBytes(@, 1)]
          /\ IF ByteAt(wire[t].buf, 0) # BEGIN
             THEN EndTask(t, ErrResult(SyncErr("ReceiverError",
                                 RecvErr("PeerError", ByteAt(wire[t].buf, 0)))))
             ELSE /\ task' = [task EXCEPT ![t].pc = "recv_create", ![t].idx = 1]
                  /\ receiving' = receiving
    /\ UNCHANGED <<scen, storeA, storeB, deleting, disp, snd, faults>>

\* the error arm of the receive loop: delete_many on ids[..=i], return Err;
\* st is the store as the failed receive_object left it
RunFail(t, e, st) ==
    /\ storeB' = DeleteMany(st, SubSeq(PeerReq(t).objects, 1, task[t].idx))
    /\ EndTask(t, ErrResult(SyncErr("ReceiverError", RecvErr(e, 0))))

\* receive_object up to and including PlasmaClient::create
RecvCreate(t) ==
    /\ task[t].pc = "recv_create"
    /\ LET w   == wire[t]
           oid == PeerReq(t).objects[task[t].idx]
       IN  \/ /\ ReadFails(w, 8)
              /\ RunFail(t, "ConnectionError", storeB)
              /\ UNCHANGED <<wire, faults>>
           \/ /\ ReadReady(w, 8)
              /\ LET h    == DecodeHeader([k \in 1..8 |-> ByteAt(w.buf, k - 1)])
                     rest == [w EXCEPT !.buf = DropBytes(w.buf, 8)]
                 IN  IF U48IsZero(h.data_size)
                     THEN /\ RunFail(t, "ZeroLengthObjectData", storeB)
                          /\ wire' = [wire EXCEPT ![t] = rest]
                          /\ faults' = faults
                     ELSE IF U48Greater(h.data_size, MAX_DATA_SIZE, 6)
                     THEN /\ RunFail(t, "ObjectDataTooLarge", storeB)
                          /\ wire' = [wire EXCEPT ![t] = rest]
                          /\ faults' = faults
                     ELSE IF h.meta_size > MAX_META_SIZE
                     THEN /\ RunFail(t, "ObjectMetaTooLarge", storeB)
                          /\ wire' = [wire EXCEPT ![t] = rest]
                          /\ faults' = faults
                     ELSE \/ /\ ReadFails(rest, h.meta_size)
                             /\ RunFail(t, "ConnectionError", storeB)
                             /\ wire' = [wire EXCEPT ![t] = rest]
                             /\ faults' = faults
                          \/ /\ ReadReady(rest, h.meta_size)
                             /\ wire' = [wire EXCEPT ![t].buf = DropBytes(rest.buf, h.meta_size)]
                             /\ \/ /\ Fault
                                   /\ faults' = faults + 1
                                   /\ RunFail(t, "StoreError", storeB)
                                \/ /\ faults' = faults
                                   /\ IF \/ storeB[oid].state # "absent"
                                         \/ ~U48Small(h.data_size)
                                         \/ U48ToNat(h.data_size) > StoreCapacity
                                      THEN RunFail(t, "StoreError", storeB)
                                      ELSE /\ storeB' = StoreCreate(storeB, oid,
                                                 U48ToNat(h.data_size),
                                                 TakeBytes(rest.buf, h.meta_size))
                                           /\ task' = [task EXCEPT ![t].pc = "recv_seal",
                                                         ![t].size = U48ToNat(h.data_size)]
                                           /\ receiving' = receiving
    /\ UNCHANGED <<scen, storeA, deleting, disp, snd>>

\* receive_object from the read of the data to its return, and the Ok arm
\* of the receive loop, which drops the returned buffer
RecvSeal(t) ==
    /\ task[t].pc = "recv_seal"
    /\ LET w   == wire[t]
           n   == task[t].size
           oid == PeerReq(t).objects[task[t].idx]
           written == StoreWrite(storeB, oid, TakeBytes(w.buf, n))
       IN  \/ /\ ReadFails(w, n)
              /\ RunFail(t, "ConnectionError", StoreRelease(storeB, oid))
              /\ UNCHANGED <<wire, faults>>
           \/ /\ ReadReady(w, n)
              /\ wire' = [wire EXCEPT ![t].buf = DropBytes(w.buf, n)]
              /\ \/ /\ Fault
                    /\ faults' = faults + 1
                    /\ RunFail(t, "StoreError", StoreRelease(written, oid))
                 \/ /\ Fault
                    /\ faults' = faults + 1
                    /\ storeB' = StoreSeal(written, oid)
                    /\ EndTask(t, PanicResult)
                 \/ /\ faults' = faults
                    /\ storeB' = StoreRelease(StoreSeal(written, oid), oid)
                    /\ receiving' = receiving
                    /\ task' = IF task[t].idx = Len(PeerReq(t).objects)
                               THEN [task EXCEPT ![t].pc = "shutdown"]
                               ELSE [task EXCEPT ![t].pc = "recv_create", ![t].idx = @ + 1]
    /\ UNCHANGED <<scen, storeA, deleting, disp, snd>>

\* socket.shutdown and the return of process_peer_request after a
\* successful run
Shutdown(t) ==
    /\ task[t].pc = "shutdown"
    /\ EndTask(t, OkResult)
    /\ UNCHANGED <<scen, storeA, storeB, deleting, disp, snd, wire, faults>>

(***************************************************************************)
(* Server A: handler and sender (handler.rs, sender.rs)                    *)
(***************************************************************************)
\* a size check that looks at the data size only
ObjectSizeErrorDataOnly(ob) ==
    IF U48Greater(Len48(ob.data), MAX_DATA_SIZE, 6) THEN "ObjectDataTooLarge" ELSE "ok"

\* the body of the loop of ObjectSender::check_object_sizes
ObjectSizeError(ob) ==
    IF BufLen(ob.meta) > MAX_META_SIZE THEN "ObjectMetaTooLarge"
    ELSE IF U48Greater(Len48(ob.data), MAX_DATA_SIZE, 6) THEN "ObjectDataTooLarge"
    ELSE "ok"

\* ObjectSender::check_object_sizes
RECURSIVE CheckObjectSizes(_)
CheckObjectSizes(objects) ==
    IF objects = <<>> THEN "ok"
    ELSE IF ObjectSizeError(objects[1]) # "ok" THEN ObjectSizeError(objects[1])
    ELSE CheckObjectSizes(Tail(objects))

\* send_object: header, metadata, data
ObjectBytes(ob) ==
    Cat(Cat(BytesOf(HeaderBytes(BufLen(ob.meta), BufLen(ob.data))), ob.meta), ob.data)

\* an error path that answers every error with a status byte
SenderFailAnswers(s, e, st) ==
    /\ storeA' = st
    /\ wire' = [wire EXCEPT ![s].closed = TRUE,
                  ![s].buf = Cat(@, Run(IF SendResponseCode(e) # NoCode
                                        THEN SendResponseCode(e)
                                        ELSE PEER_CONNECTION_ERR, 1))]
    /\ deleting' = DropSender(deleting, object_ids(s), delete_after_send(s))
    /\ snd' = [snd EXCEPT ![s] = [NewSender("done") EXCEPT !.err = e]]

\* the error path of ObjectSender::run and of Handler::run: the response
\* code, if any, is written, the sender is dropped and the handler returns
SenderFail(s, e, st) ==
    /\ storeA' = st
    /\ wire' = [wire EXCEPT ![s].closed = TRUE,
                  ![s].buf = IF SendResponseCode(e) # NoCode /\ ~wire[s].broken
                             THEN Cat(@, Run(SendResponseCode(e), 1)) ELSE @]
    /\ deleting' = DropSender(deleting, object_ids(s), delete_after_send(s))
    /\ snd' = [snd EXCEPT ![s] = [NewSender("done") EXCEPT !.err = e]]

\* build_sender and the check_deleting step of send_objects
SendCheckDeleting(s) ==
    /\ snd[s].pc = "check_deleting"
    /\ IF InDeleting(deleting, object_ids(s)) # <<>>
       THEN SenderFail(s, "ObjectDeletionScheduled", storeA)
       ELSE /\ deleting' = CheckDeleting(deleting, object_ids(s), delete_after_send(s))
            /\ snd' = [snd EXCEPT ![s].pc = "get_objects", ![s].passed = delete_after_send(s)]
            /\ UNCHANGED <<storeA, wire>>
    /\ UNCHANGED <<scen, storeB, receiving, disp, task, faults>>

\* the get_objects and check_object_sizes steps of send_objects
SendGetObjects(s) ==
    /\ snd[s].pc = "get_objects"
    /\ \/ /\ Fault
          /\ faults' = faults + 1
          /\ SenderFail(s, "StoreError", storeA)
       \/ /\ faults' = faults
          /\ LET got == GetMany(storeA, object_ids(s))
             IN  IF \E k \in 1..Len(got.objects) : got.objects[k] = None
                 THEN SenderFail(s, "ObjectsNotFound", storeA)
                 ELSE IF CheckObjectSizes(got.objects) # "ok"
                 THEN SenderFail(s, CheckObjectSizes(got.objects), storeA)
                 ELSE /\ storeA' = got.store
                      /\ snd' = [snd EXCEPT ![s].pc = "begin", ![s].objects = got.objects]
                      /\ UNCHANGED <<deleting, wire>>
    /\ UNCHANGED <<scen, storeB, receiving, disp, task>>

\* the write of BEGIN
SendBegin(s) ==
    /\ snd[s].pc = "begin"
    /\ IF wire[s].broken
       THEN SenderFail(s, "ConnectionError", ReleaseMany(storeA, object_ids(s)))
       ELSE /\ wire' = [wire EXCEPT ![s].buf = Cat(@, Run(BEGIN, 1))]
            /\ snd' = [snd EXCEPT ![s].pc = "send", ![s].i = 1]
            /\ UNCHANGED <<storeA, deleting>>
    /\ UNCHANGED <<scen, storeB, receiving, disp, task, faults>>

\* a send loop that deletes the objects when a write fails
SendObjectOrDelete(s) ==
    /\ snd[s].pc = "send"
    /\ IF wire[s].broken
       THEN SenderFail(s, "ConnectionError",
                       ReleaseMany(IF delete_after_send(s)
                                   THEN DeleteMany(storeA, object_ids(s)) ELSE storeA,
                                   object_ids(s)))
       ELSE /\ wire' = [wire EXCEPT ![s].buf = Cat(@, ObjectBytes(snd[s].objects[snd[s].i]))]
            /\ snd' = IF snd[s].i = Len(snd[s].objects)
                      THEN [snd EXCEPT ![s].pc = "finish"]
                      ELSE [snd EXCEPT ![s].i = @ + 1]
            /\ UNCHANGED <<storeA, deleting>>
    /\ UNCHANGED <<scen, storeB, receiving, disp, task, faults>>

\* one iteration of the send loop
SendObject(s) ==
    /\ snd[s].pc = "send"
    /\ IF wire[s].broken
       THEN SenderFail(s, "ConnectionError", ReleaseMany(storeA, object_ids(s)))
       ELSE /\ wire' = [wire EXCEPT ![s].buf = Cat(@, ObjectBytes(snd[s].objects[snd[s].i]))]
            /\ snd' = IF snd[s].i = Len(snd[s].objects)
                      THEN [snd EXCEPT ![s].pc = "finish"]
                      ELSE [snd EXCEPT ![s].i = @ + 1]
            /\ UNCHANGED <<storeA, deleting>>
    /\ UNCHANGED <<scen, storeB, receiving, disp, task, faults>>

\* send_objects after the loop (delete_many), its return, which drops the
\* retrieved buffers, and the drop of the sender in Handler::run
SendFinish(s) ==
    /\ snd[s].pc = "finish"
    /\ \/ /\ faults' = faults
          /\ storeA' = ReleaseMany(IF delete_after_send(s)
                                   THEN DeleteMany(storeA, object_ids(s)) ELSE storeA,
                                   object_ids(s))
       \/ /\ Fault
          /\ delete_after_send(s)
          /\ faults' = faults + 1
          /\ storeA' = ReleaseMany(storeA, object_ids(s))
    /\ deleting' = DropSender(deleting, object_ids(s), delete_after_send(s))
    /\ snd' = [snd EXCEPT ![s] = [NewSender("served") EXCEPT
                                    !.deleted = delete_after_send(s) /\ faults' = faults]]
    /\ UNCHANGED <<scen, storeB, receiving, disp, task, wire>>

(***************************************************************************)
(* Environment                                                             *)
(***************************************************************************)
\* an established connection to a peer breaks
ConnBreak(s) ==
    /\ Fault
    /\ ~wire[s].broken
    /\ IF s[1] = 0 THEN snd[s].pc \notin {"done", "served"}
       ELSE task[s].connected /\ task[s].pc # "done"
    /\ faults' = faults + 1
    /\ wire' = [wire EXCEPT ![s].broken = TRUE]
    /\ UNCHANGED <<scen, storeA, storeB, receiving, deleting, disp, task, snd>>

\* a client of B's Plasma store other than the server creates and seals an
\* object of its own under an id that a receiver is about to create
\* (PlasmaClient::create_and_seal)
ClientPut(id) ==
    /\ Fault
    /\ id \in receiving
    /\ storeB[id].state = "absent"
    /\ faults' = faults + 1
    /\ storeB' = [storeB EXCEPT ![id] = Sealed(<<>>, Run(9, 1))]
    /\ UNCHANGED <<scen, storeA, receiving, deleting, disp, task, snd, wire>>

Next ==
    \/ /\ \E id \in Ids : ClientPut(id)
       /\ UNCHANGED <<aux, locks>>
    \/ /\ \E c \in Conns : DispatchStart(c) \/ DispatchRespond(c)
       /\ UNCHANGED <<aux, locks>>
    \/ /\ \E t \in Tasks : \/ PrepareAdd(t) \/ PrepareContains(t) \/ Connect(t)
                           \/ ReadStatus(t) \/ RecvCreate(t) \/ RecvSeal(t) \/ Shutdown(t)
       /\ UNCHANGED <<aux, locks>>
    \/ /\ \E s \in Links : \/ SendCheckDeleting(s) \/ SendGetObjects(s) \/ SendBegin(s)
                           \/ SendObject(s) \/ SendFinish(s)
       /\ UNCHANGED <<aux, locks>>
    \/ /\ \E s \in Tasks \cup Directs : ConnBreak(s)
       /\ UNCHANGED <<aux, locks>>

Spec == Init /\ [][Next]_vars

\* the steps of the tasks of the two servers: the runtime runs every task
\* that is ready, and a contacted peer goes on until it has answered or
\* closed; the faults of the environment need not happen
Progress ==
    /\ \/ \E c \in Conns : DispatchStart(c) \/ DispatchRespond(c)
       \/ \E t \in Tasks : \/ PrepareAdd(t) \/ PrepareContains(t) \/ Connect(t)
                             \/ ReadStatus(t) \/ RecvCreate(t) \/ RecvSeal(t) \/ Shutdown(t)
       \/ \E s \in Links : \/ SendCheckDeleting(s) \/ SendGetObjects(s) \/ SendBegin(s)
                             \/ SendObject(s) \/ SendFinish(s)
    /\ UNCHANGED <<aux, locks>>

SpecLive == Init /\ [][Next]_vars /\ WF_vars(Progress)

(***************************************************************************)
(* Request handling on its own: Handler::run up to the dispatch of the     *)
(* request (handler.rs), and write_into as a client applies it             *)
(***************************************************************************)
\* the engine at rest: no request in progress, both stores empty
EngineIdle ==
    /\ scen = Scenario(<<>>, <<>>, EmptyStore, EmptyStore)
    /\ storeA = EmptyStore
    /\ storeB = EmptyStore
    /\ receiving = {}
    /\ deleting = {}
    /\ disp = <<>>
    /\ task = <<>>
    /\ snd = <<>>
    /\ wire = <<>>
    /\ faults = 0
    /\ locks = NoLocks

\* a client has written a byte stream and closed
InitRequest ==
    /\ EngineIdle
    /\ ListenerIdle
    /\ ApiIdle
    /\ echo = NoEcho
    /\ sent \in Streams
    /\ sock = sent
    /\ hnd = NewHandler("read", NoRequest)

\* a caller of the library holds a Request value
InitValidate ==
    /\ EngineIdle
    /\ ListenerIdle
    /\ ApiIdle
    /\ echo = NoEcho
    /\ sent = <<>>
    /\ sock = <<>>
    /\ \E r \in GivenRequests : hnd = NewHandler("given", r)

\* Request::read_from in Handler::run
HandlerRead ==
    /\ hnd.pc = "read"
    /\ LET r == RequestReadFrom(sock)
       IN  IF ~r.ok
           THEN /\ hnd' = [hnd EXCEPT !.pc = IF r.err = "unimplemented"
                                             THEN "panicked" ELSE "failed",
                                      !.err = r.err]
                /\ sock' = sock
           ELSE IF r.val = NoRequest
           THEN /\ hnd' = [hnd EXCEPT !.pc = "closed"]
                /\ sock' = sock
           ELSE /\ hnd' = [hnd EXCEPT !.pc = "validate", !.request = r.val]
                /\ sock' = r.rest
    /\ UNCHANGED <<engine, gate, api, sent, echo>>

\* a handler that goes on to process the request whatever validate says
HandlerValidateIgnored ==
    /\ hnd.pc = "validate"
    /\ LET v == RequestValidate(hnd.request)
       IN  hnd' = [hnd EXCEPT !.verdict = v, !.pc = "process"]
    /\ UNCHANGED <<engine, gate, api, sent, sock, echo>>

\* request.validate() in Handler::run
HandlerValidate ==
    /\ hnd.pc = "validate"
    /\ LET v == RequestValidate(hnd.request)
       IN  hnd' = [hnd EXCEPT !.verdict = v,
                              !.err = IF v = "ok" THEN "none" ELSE v,
                              !.pc = IF v = "ok" THEN "process" ELSE "failed"]
    /\ UNCHANGED <<engine, gate, api, sent, sock, echo>>

\* Request::validate called on a Request value
Validate ==
    /\ hnd.pc = "given"
    /\ hnd' = [hnd EXCEPT !.verdict = RequestValidate(hnd.request), !.pc = "validated"]
    /\ UNCHANGED <<engine, gate, api, sent, sock, echo>>

\* the bytes read_from has consumed from the stream
Consumed == TakeBytes(sent, BufLen(sent) - BufLen(sock))

\* Request::write_into applied to the first request that was read from a
\* stream, kept with the bytes it was read from
WriteInto ==
    /\ ~echo.done
    /\ hnd.request # NoRequest
    /\ hnd.pc \in {"validate", "process", "failed"}
    /\ snd = <<>> /\ disp = <<>>
    /\ echo' = [done |-> TRUE, bytes |-> RequestWriteInto(hnd.request),
                request |-> hnd.request, consumed |-> Consumed]
    /\ UNCHANGED <<engine, gate, api, sent, sock, hnd>>

\* the match on the request in Handler::run: build_sender for a COPY or a
\* TAKE, a Dispatcher for a SYNC, each given the socket of the connection
HandlerProcess ==
    /\ hnd.pc = "process"
    /\ hnd' = [hnd EXCEPT !.pc = "processing"]
    /\ IF hnd.request.type = "SYNC"
       THEN /\ scen' = Scenario(<<hnd.request.peers>>, <<>>, EmptyStore, EmptyStore)
            /\ disp' = <<[pc |-> "read", response |-> <<>>, err |-> "none",
                          handler |-> "dispatching"]>>
            /\ UNCHANGED <<snd, wire>>
       ELSE /\ scen' = Scenario(<<>>, <<Direct(hnd.request.type = "TAKE", hnd.request.objects)>>,
                                EmptyStore, EmptyStore)
            /\ snd' = (<<0, 1>> :> NewSender("check_deleting"))
            /\ wire' = (<<0, 1>> :> NewWire)
            /\ disp' = disp
    /\ UNCHANGED <<storeA, storeB, receiving, deleting, task, faults, locks>>
    /\ UNCHANGED <<gate, api, sent, sock, echo>>

\* what ObjectSender::run and Dispatcher::run return to Handler::run
SenderErrors == {"ObjectDeletionScheduled", "StoreError", "ObjectsNotFound",
                 "ObjectMetaTooLarge", "ObjectDataTooLarge", "ConnectionError"}
DispatcherErrors == {"PeerAddressIsSelf", "ClientConnectionError"}

\* the engine once run has returned e ("none" for Ok)
Returned(e) ==
    /\ snd' = IF snd = <<>> THEN snd
              ELSE (<<0, 1>> :> [NewSender(IF e = "none" THEN "served" ELSE "done")
                                   EXCEPT !.err = e])
    /\ disp' = IF disp = <<>> THEN disp
               ELSE <<[disp[1] EXCEPT !.pc = IF e = "none" THEN "done" ELSE "failed",
                                      !.err = e,
                                      !.handler = IF e = "none" THEN "reading"
                                                  ELSE "returned_err"]>>

\* a handler that goes on to the next request after an error that was
\* answered with a response code
HandlerResumeAfterAnswer ==
    /\ hnd.pc = "processing"
    /\ \E e \in {"none"} \cup (IF hnd.request.type = "SYNC" THEN DispatcherErrors
                                ELSE SenderErrors) :
          /\ Returned(e)
          /\ hnd' = IF e = "none" \/ (e \in SenderErrors /\ SendResponseCode(e) # NoCode)
                    THEN NewHandler("read", NoRequest)
                    ELSE [hnd EXCEPT !.pc = "failed", !.err = e]
    /\ UNCHANGED <<scen, wire, storeA, storeB, receiving, deleting, task, faults, locks>>
    /\ UNCHANGED <<gate, api, sent, sock, echo>>

\* `.run(&mut self.socket).await?` in Handler::run: on Ok the loop goes back
\* to read_from, on Err run returns the error
HandlerResume ==
    /\ hnd.pc = "processing"
    /\ \E e \in {"none"} \cup (IF hnd.request.type = "SYNC" THEN DispatcherErrors
                                ELSE SenderErrors) :
          /\ Returned(e)
          /\ hnd' = IF e = "none" THEN NewHandler("read", NoRequest)
                    ELSE [hnd EXCEPT !.pc = "failed", !.err = e]
    /\ UNCHANGED <<scen, wire, storeA, storeB, receiving, deleting, task, faults, locks>>
    /\ UNCHANGED <<gate, api, sent, sock, echo>>

NextRequest ==
    HandlerRead \/ HandlerValidate \/ WriteInto \/ HandlerProcess \/ HandlerResume

SpecRequest == InitRequest /\ [][NextRequest]_vars

NextValidate == Validate

SpecValidate == InitValidate /\ [][NextValidate]_vars

(***************************************************************************)
(* A request on the wire: a caller validates a Request value and writes it *)
(* with write_into, and read_from parses the bytes at the other end.  The  *)
(* state names the request by the ranges of its id lists and keeps of each *)
(* request its shape: the types, the addresses, the length of every list   *)
(* and its ids (of a long list the first and the last).                    *)
(***************************************************************************)
PeerCase(type, from, lo, hi) == [type |-> type, from |-> from, lo |-> lo, hi |-> hi]
RequestCase(type, peers, lo, hi) == [type |-> type, peers |-> peers, lo |-> lo, hi |-> hi]

\* the Request value a case names
RequestOf(c) ==
    IF c.type = "SYNC"
    THEN RequestSync([k \in 1..Len(c.peers) |->
                         [type |-> c.peers[k].type, from |-> c.peers[k].from,
                          objects |-> IdList(c.peers[k].lo, c.peers[k].hi)]])
    ELSE [type |-> c.type, peers |-> <<>>, objects |-> IdList(c.lo, c.hi)]

\* list lengths: short ones, and those around MAX_OBJECT_ID_LIST_LEN
ShortLens == {0, 1, 2, 3, 10, 11}
LongLens == {MAX_OBJECT_ID_LIST_LEN, MAX_OBJECT_ID_LIST_LEN + 1}

WireCases ==
    {RequestCase(t, <<>>, 1, n) : t \in {"COPY", "TAKE"}, n \in ShortLens}
        \cup {RequestCase("COPY", <<>>, 1, n) : n \in LongLens}
        \cup {RequestCase("SYNC", <<PeerCase(t, a, 1, n)>>, 1, 0) :
                t \in {"COPY", "TAKE"}, a \in {Addr1, Addr2}, n \in ShortLens}
        \cup {RequestCase("SYNC", <<PeerCase("TAKE", Addr1, 1, n)>>, 1, 0) : n \in LongLens}
        \cup {RequestCase("SYNC", <<PeerCase(t, a, 1, n), PeerCase(u, b, m, m + 1)>>, 1, 0) :
                t \in {"COPY", "TAKE"}, a \in {Addr1, Addr2}, n \in 1..3,
                u \in {"COPY", "TAKE"}, b \in {Addr1, Addr2}, m \in {2, 4}}

ListShape(l) == [count |-> Len(l), ids |-> IF Len(l) <= 3 THEN l ELSE <<l[1], l[Len(l)]>>]

Shape(request) ==
    [type |-> request.type,
     peers |-> [k \in 1..Len(request.peers) |->
                  [type |-> request.peers[k].type, from |-> request.peers[k].from,
                   objects |-> ListShape(request.peers[k].objects)]],
     objects |-> ListShape(request.objects)]

InitWire ==
    /\ EngineIdle
    /\ ListenerIdle
    /\ ApiIdle
    /\ echo = NoEcho
    /\ sent = <<>>
    /\ sock = <<>>
    /\ \E c \in WireCases : hnd = NewHandler("client", c)

\* what the reader got from the bytes of request r: the shape of the request
\* read, whether it equals r, and the number of bytes left unread
ReadBack(c, r, back) ==
    [pc |-> "read_back", request |-> c, verdict |-> "ok", err |-> back.err,
     back |-> IF back.ok THEN Shape(back.val) ELSE Shape(NoRequest),
     same |-> back.ok /\ back.val = r,
     left |-> IF back.ok THEN BufLen(back.rest) ELSE 0]

\* validate, then write_into by the caller and read_from by the peer
WriteThenRead ==
    /\ hnd.pc = "client"
    /\ LET v == RequestValidate(RequestOf(hnd.request))
       IN  IF v # "ok"
           THEN hnd' = [hnd EXCEPT !.pc = "rejected", !.verdict = v, !.err = v]
           ELSE hnd' = ReadBack(hnd.request, RequestOf(hnd.request),
                                RequestReadFrom(RequestWriteInto(RequestOf(hnd.request))))
    /\ UNCHANGED <<engine, gate, api, sent, sock, echo>>

NextWire == WriteThenRead

SpecWire == InitWire /\ [][NextWire]_vars

(***************************************************************************)
(* The listener and the connection limit (listener.rs, handler.rs)         *)
(***************************************************************************)
\* ServerOptions.max_connections, and the connections that clients open
MaxConnections == 2
MaxClients == MaxConnections + 1

Slots == 1..MaxClients
Live == {h \in Slots : handlers[h] = "running"}

\* Listener::new has returned and Listener::start begins
InitListener ==
    /\ EngineIdle
    /\ CodecIdle
    /\ ApiIdle
    /\ limit_connections = MaxConnections
    /\ listener = NewListener("acquire")
    /\ handlers = [h \in Slots |-> "none"]

\* a listener that goes on to accept without a permit
AcquireNoPermit ==
    /\ listener.pc = "acquire"
    /\ limit_connections' = IF limit_connections > 0 THEN limit_connections - 1 ELSE 0
    /\ listener' = NewListener("accept")
    /\ UNCHANGED <<engine, codec, api, handlers>>

\* Listener::start: limit_connections.acquire().await.unwrap().forget(), then
\* the call of accept, whose backoff starts at 1
Acquire ==
    /\ listener.pc = "acquire"
    /\ limit_connections > 0
    /\ limit_connections' = limit_connections - 1
    /\ listener' = NewListener("accept")
    /\ UNCHANGED <<engine, codec, api, handlers>>

\* Listener::accept: listener.accept() gives a socket; start builds the
\* Handler, spawns its task and goes back to acquire
AcceptOk(h) ==
    /\ listener.pc = "accept"
    /\ handlers[h] = "none"
    /\ \A g \in Slots : g < h => handlers[g] # "none"
    /\ handlers' = [handlers EXCEPT ![h] = "running"]
    /\ listener' = [listener EXCEPT !.pc = "acquire"]
    /\ UNCHANGED <<engine, codec, api, limit_connections>>

\* Listener::start after accept gave a socket whose peer_addr() fails: the
\* unwrap in the debug! line panics, the socket is dropped and no Handler is
\* built
AcceptPanic(h) ==
    /\ listener.pc = "accept"
    /\ handlers[h] = "none"
    /\ \A g \in Slots : g < h => handlers[g] # "none"
    /\ handlers' = [handlers EXCEPT ![h] = "gone"]
    /\ listener' = [listener EXCEPT !.pc = "panicked"]
    /\ UNCHANGED <<engine, codec, api, limit_connections>>

\* an accept that gives up one failure later
AcceptErrLate ==
    /\ listener.pc = "accept"
    /\ listener' = [listener EXCEPT !.pc = IF listener.backoff > 5 THEN "failed" ELSE "sleep"]
    /\ UNCHANGED <<engine, codec, api, limit_connections, handlers>>

\* Listener::accept: listener.accept() fails; with backoff > 4 the error is
\* returned, and start returns it
AcceptErr ==
    /\ listener.pc = "accept"
    /\ listener' = [listener EXCEPT !.pc = IF listener.backoff > 4 THEN "failed" ELSE "sleep"]
    /\ UNCHANGED <<engine, codec, api, limit_connections, handlers>>

\* Listener::accept: time::sleep(Duration::from_secs(backoff)); backoff += 1
Backoff ==
    /\ listener.pc = "sleep"
    /\ listener' = [listener EXCEPT !.pc = "accept",
                                    !.slept = Append(@, listener.backoff),
                                    !.backoff = @ + 1]
    /\ UNCHANGED <<engine, codec, api, limit_connections, handlers>>

\* a Handler whose Drop adds no permit
HandlerDropKeepsPermit(h) ==
    /\ handlers[h] = "running"
    /\ handlers' = [handlers EXCEPT ![h] = "dropping"]
    /\ UNCHANGED <<engine, codec, api, listener, limit_connections>>

\* the task of a handler ends (run returned Ok or Err, or panicked) and the
\* Handler is dropped: Drop adds the permit back
HandlerDrop(h) ==
    /\ handlers[h] = "running"
    /\ limit_connections' = limit_connections + 1
    /\ handlers' = [handlers EXCEPT ![h] = "dropping"]
    /\ UNCHANGED <<engine, codec, api, listener>>

\* the fields of the dropped Handler are dropped: its socket is closed
HandlerGone(h) ==
    /\ handlers[h] = "dropping"
    /\ handlers' = [handlers EXCEPT ![h] = "gone"]
    /\ UNCHANGED <<engine, codec, api, limit_connections, listener>>

NextListener ==
    \/ Acquire
    \/ \E h \in Slots : AcceptOk(h) \/ AcceptPanic(h)
    \/ AcceptErr
    \/ Backoff
    \/ \E h \in Slots : HandlerDrop(h) \/ HandlerGone(h)

SpecListener == InitListener /\ [][NextListener]_vars

(***************************************************************************)
(* The mutexes of Store (receiver.rs, sender.rs): the receivers of one     *)
(* SYNC and the senders of two connections on one server, each step being  *)
(* a lock, a section under the guard, a store call or socket I/O           *)
(***************************************************************************)
LockScenarios ==
    {Scenario(<<<<Copy(Peer, <<"X">>), Take(Peer, <<"X", "Y">>)>>>>,
              <<Direct(TRUE, <<"X">>), Direct(d, <<"Y">>)>>, StoreXY, EmptyStore) :
        d \in BOOLEAN}

Workers == Tasks \cup Directs
Pc(w) == IF w \in Tasks THEN task[w].pc ELSE snd[w].pc
Goto(w, pc) ==
    IF w \in Tasks
    THEN task' = [task EXCEPT ![w].pc = pc] /\ snd' = snd
    ELSE snd' = [snd EXCEPT ![w].pc = pc] /\ task' = task
Mutex(w) == IF w \in Tasks THEN "receiving" ELSE "deleting"
lockRest == <<scen, storeA, storeB, disp, wire, faults, codec, gate, api>>

InitLocks ==
    /\ CodecIdle
    /\ ListenerIdle
    /\ ApiIdle
    /\ scen \in LockScenarios
    /\ storeA = scen.storeA
    /\ storeB = scen.storeB
    /\ receiving = {}
    /\ deleting = {}
    /\ disp = <<>>
    /\ task = [t \in Tasks |-> [NewTask EXCEPT !.pc = "prepare_add"]]
    /\ snd = [s \in Directs |-> NewSender("check_deleting")]
    /\ wire = <<>>
    /\ faults = 0
    /\ locks = NoLocks

\* self.receiving.lock().unwrap() in add_to_receiving and in Drop for
\* ObjectReceiver, self.deleting.lock().unwrap() in check_deleting and in Drop
\* for ObjectSender: the thread goes on once the mutex is free
LockMutex(w) ==
    /\ \/ Pc(w) \in {"prepare_add", "check_deleting"}
       \/ Pc(w) = "drop" /\ (w \in Directs => delete_after_send(w))
    /\ locks[Mutex(w)] = Nobody
    /\ locks' = [locks EXCEPT ![Mutex(w)] = w]
    /\ Goto(w, CASE Pc(w) = "prepare_add" -> "add_to_receiving"
                  [] Pc(w) = "check_deleting" -> "in_check_deleting"
                  [] Pc(w) = "drop" -> "dropping")
    /\ UNCHANGED <<receiving, deleting, lockRest>>

\* a registration whose guard lives on in the receiver until it is dropped
AddToReceivingKeepsGuard(t) ==
    /\ task[t].pc = "add_to_receiving"
    /\ IF ReceivingDuplicates(receiving, PeerReq(t).objects) # <<>>
       THEN /\ task' = [task EXCEPT ![t].pc = "drop"]
            /\ receiving' = receiving
            /\ locks' = [locks EXCEPT !.receiving = Nobody]
       ELSE /\ receiving' = AddToReceiving(receiving, PeerReq(t).objects)
            /\ task' = [task EXCEPT ![t].pc = "prepare_contains", ![t].added = TRUE]
            /\ locks' = locks
    /\ UNCHANGED <<snd, deleting, lockRest>>

\* the body of add_to_receiving; the guard is dropped when it returns
AddToReceivingSection(t) ==
    /\ task[t].pc = "add_to_receiving"
    /\ IF ReceivingDuplicates(receiving, PeerReq(t).objects) # <<>>
       THEN /\ task' = [task EXCEPT ![t].pc = "drop"]
            /\ receiving' = receiving
       ELSE /\ receiving' = AddToReceiving(receiving, PeerReq(t).objects)
            /\ task' = [task EXCEPT ![t].pc = "prepare_contains", ![t].added = TRUE]
    /\ locks' = [locks EXCEPT !.receiving = Nobody]
    /\ UNCHANGED <<snd, deleting, lockRest>>

\* the body of check_deleting; the guard is dropped when it returns
CheckDeletingSection(s) ==
    /\ snd[s].pc = "in_check_deleting"
    /\ IF InDeleting(deleting, object_ids(s)) # <<>>
       THEN /\ snd' = [snd EXCEPT ![s].pc = "drop"]
            /\ deleting' = deleting
       ELSE /\ deleting' = CheckDeleting(deleting, object_ids(s), delete_after_send(s))
            /\ snd' = [snd EXCEPT ![s].pc = "get_objects", ![s].passed = delete_after_send(s)]
    /\ locks' = [locks EXCEPT !.deleting = Nobody]
    /\ UNCHANGED <<task, receiving, lockRest>>

\* a call of the Plasma client: contains_many in prepare, create, seal and
\* delete_many in receive; get_many and delete_many in send_objects
StoreCall(w) ==
    /\ Pc(w) \in {"prepare_contains", "store", "get_objects", "delete_many"}
    /\ \E ok \in BOOLEAN :
          Goto(w, CASE ~ok -> "drop"
                    [] ok /\ Pc(w) = "prepare_contains" -> "connect"
                    [] ok /\ Pc(w) = "store" -> "receive"
                    [] ok /\ Pc(w) = "get_objects" -> "send"
                    [] ok /\ Pc(w) = "delete_many" -> "drop")
    /\ UNCHANGED <<receiving, deleting, locks, lockRest>>

\* an await on the socket: connect and the write of the request in
\* process_peer_request, the reads of receive, the writes of send_objects
SocketIo(w) ==
    /\ Pc(w) \in {"connect", "receive", "send"}
    /\ \E next \in (CASE Pc(w) = "connect" -> {"receive", "drop"}
                     [] Pc(w) = "receive" -> {"store", "drop"}
                     [] Pc(w) = "send" -> {"send", "delete_many", "drop"}) :
          /\ next = "delete_many" => delete_after_send(w)
          /\ Goto(w, next)
    /\ UNCHANGED <<receiving, deleting, locks, lockRest>>

\* the body of Drop for ObjectReceiver and of Drop for ObjectSender with
\* delete_after_send; the guard is dropped at its end
DropSection(w) ==
    /\ Pc(w) = "dropping"
    /\ IF w \in Tasks
       THEN /\ receiving' = DropReceiver(receiving, PeerReq(w).objects)
            /\ deleting' = deleting
       ELSE /\ deleting' = DropSender(deleting, object_ids(w), delete_after_send(w))
            /\ receiving' = receiving
    /\ locks' = [locks EXCEPT ![Mutex(w)] = Nobody]
    /\ Goto(w, "done")
    /\ UNCHANGED lockRest

\* Drop for ObjectSender without delete_after_send: no lock is taken
DropNoLock(s) ==
    /\ snd[s].pc = "drop"
    /\ ~delete_after_send(s)
    /\ snd' = [snd EXCEPT ![s].pc = "done"]
    /\ UNCHANGED <<task, receiving, deleting, locks, lockRest>>

NextLocks ==
    \/ \E w \in Workers : LockMutex(w) \/ StoreCall(w) \/ SocketIo(w) \/ DropSection(w)
    \/ \E t \in Tasks : AddToReceivingSection(t)
    \/ \E s \in Directs : CheckDeletingSection(s) \/ DropNoLock(s)

SpecLocks == InitLocks /\ [][NextLocks]_vars

(***************************************************************************)
(* Two clients of one Plasma store (plasma-store/src/lib.rs). The store    *)
(* daemon is not part of the repository: its answers follow the            *)
(* documentation of lib.rs and the tests of tests.rs.                      *)
(***************************************************************************)
MaxBuffers == 3
Clients == {1, 2}
\* the object the clients work on
ApiIds == {"X"}
Handles == 1..Len(bufs)

\* ObjectBuffer::new, with the call that returned the buffer
NewBuffer(client, id, is_mutable) ==
    [client |-> client, id |-> id, origin |-> IF is_mutable THEN "create" ELSE "get",
     is_mutable |-> is_mutable, is_aborted |-> FALSE, alive |-> TRUE, released |-> 0]

\* the buffers of an object that have not been dropped
Holders(id) == {b \in Handles : bufs[b].id = id /\ bufs[b].alive}

engineRest == <<scen, storeB, receiving, deleting, disp, task, snd, wire, faults, locks>>

InitStore ==
    /\ EngineIdle
    /\ CodecIdle
    /\ ListenerIdle
    /\ ApiIdle

\* the status of plasma::create and plasma::create_and_seal
CreateStatus(st, id) == IF st[id].state = "absent" THEN "OK" ELSE "AlreadyExists"

\* the status of plasma::seal
SealStatus(st, id) == IF st[id].state = "created" THEN "OK" ELSE "TypeError"

\* PlasmaClient::create
ApiCreate(c, id) ==
    /\ Len(bufs) < MaxBuffers
    /\ IF CreateStatus(storeA, id) = "OK"
       THEN /\ storeA' = StoreCreate(storeA, id, 2, Run(1, 1))
            /\ bufs' = Append(bufs, NewBuffer(c, id, TRUE))
            /\ call' = Call("create", c, id, Len(bufs) + 1, "Ok")
            /\ life' = [life EXCEPT ![id] = "created"]
       ELSE /\ call' = Call("create", c, id, 0, "AlreadyExists")
            /\ UNCHANGED <<storeA, bufs, life>>
    /\ UNCHANGED <<engineRest, codec, gate>>

\* PlasmaClient::create_and_seal
ApiCreateAndSeal(c, id) ==
    /\ IF CreateStatus(storeA, id) = "OK"
       THEN /\ storeA' = [storeA EXCEPT ![id] = Sealed(Run(1, 1), Run(9, 2))]
            /\ call' = Call("create_and_seal", c, id, 0, "Ok")
            /\ life' = [life EXCEPT ![id] = "sealed"]
       ELSE /\ call' = Call("create_and_seal", c, id, 0, "AlreadyExists")
            /\ UNCHANGED <<storeA, life>>
    /\ UNCHANGED <<engineRest, codec, gate, bufs>>

\* a seal that leaves the buffer mutable
SealOutcomeStaysMutable(buf, status) ==
    CASE status = "OK"        -> [res |-> "Ok", buf |-> buf]
      [] status = "TypeError" -> [res |-> "AlreadySealed", buf |-> buf]
      [] OTHER                -> [res |-> "UnknownError", buf |-> buf]

\* ObjectBuffer::seal: the match on the status of plasma::seal
SealOutcome(buf, status) ==
    CASE status = "OK"        -> [res |-> "Ok", buf |-> [buf EXCEPT !.is_mutable = FALSE]]
      [] status = "TypeError" -> [res |-> "AlreadySealed", buf |-> buf]
      [] OTHER                -> [res |-> "UnknownError", buf |-> buf]

\* ObjectBuffer::seal
ApiSeal(b) ==
    /\ bufs[b].alive
    /\ LET status  == SealStatus(storeA, bufs[b].id)
           outcome == SealOutcome(bufs[b], status)
       IN  /\ storeA' = IF status = "OK" THEN StoreSeal(storeA, bufs[b].id) ELSE storeA
           /\ bufs' = [bufs EXCEPT ![b] = outcome.buf]
           /\ call' = Call("seal", bufs[b].client, bufs[b].id, b, outcome.res)
           /\ life' = IF status = "OK" THEN [life EXCEPT ![bufs[b].id] = "sealed"] ELSE life
    /\ UNCHANGED <<engineRest, codec, gate>>

\* ObjectBuffer::data_mut and a write through the slice it returns; the
\* assert panics on a buffer that is not mutable
ApiWrite(b) ==
    /\ bufs[b].alive
    /\ IF bufs[b].is_mutable
       THEN /\ storeA' = StoreWrite(storeA, bufs[b].id, Run(7, 2))
            /\ call' = Call("data_mut", bufs[b].client, bufs[b].id, b, "Ok")
       ELSE /\ storeA' = storeA
            /\ call' = Call("data_mut", bufs[b].client, bufs[b].id, b, "panic")
    /\ UNCHANGED <<engineRest, codec, gate, bufs, life>>

\* PlasmaClient::get: None for an object that is not sealed before the timeout
ApiGet(c, id) ==
    /\ Len(bufs) < MaxBuffers
    /\ IF StoreContains(storeA, id)
       THEN /\ storeA' = GetMany(storeA, <<id>>).store
            /\ bufs' = Append(bufs, NewBuffer(c, id, FALSE))
            /\ call' = Call("get", c, id, Len(bufs) + 1, "Some")
       ELSE /\ call' = Call("get", c, id, 0, "None")
            /\ UNCHANGED <<storeA, bufs>>
    /\ UNCHANGED <<engineRest, codec, gate, life>>

\* PlasmaClient::contains
ApiContains(c, id) ==
    /\ call' = Call("contains", c, id, 0, IF StoreContains(storeA, id) THEN "true" ELSE "false")
    /\ UNCHANGED <<engine, codec, gate, bufs, life>>

\* PlasmaClient::delete; the call says Ok whether or not the object went
ApiDelete(c, id) ==
    /\ storeA' = StoreDelete(storeA, id)
    /\ call' = Call("delete", c, id, 0, "Ok")
    /\ life' = [life EXCEPT ![id] =
                   IF life[id] # "sealed" THEN @
                   ELSE IF Holders(id) = {} THEN "deleted" ELSE "deleted_in_use"]
    /\ UNCHANGED <<engineRest, codec, gate, bufs>>

\* ObjectBuffer::abort, which takes the buffer by value, and the Drop that
\* runs when it returns. The status of plasma::abort is the daemon's; so is
\* the status of a plasma::release for a reference that is already released:
\* OK, or an error, on which Drop panics
ApiAbort(b) ==
    /\ bufs[b].alive
    /\ LET id == bufs[b].id
           released == StoreRelease(storeA, id)
       IN  IF ~bufs[b].is_mutable
           THEN /\ storeA' = released
                /\ bufs' = [bufs EXCEPT ![b].alive = FALSE, ![b].released = @ + 1]
                /\ call' = Call("abort", bufs[b].client, id, b, "NotMutable")
                /\ life' = life
           ELSE \/ /\ storeA' = [storeA EXCEPT ![id] = Absent]
                   /\ bufs' = [bufs EXCEPT ![b].alive = FALSE, ![b].is_aborted = TRUE,
                                           ![b].released = @ + 1]
                   /\ call' = Call("abort", bufs[b].client, id, b, "Ok")
                   /\ life' = [life EXCEPT ![id] = "none"]
                \/ /\ storeA' = released
                   /\ \E again \in BOOLEAN :
                         /\ bufs' = [bufs EXCEPT ![b].alive = FALSE,
                                        ![b].released = IF again THEN @ + 2 ELSE @ + 1]
                         /\ call' = Call("abort", bufs[b].client, id, b,
                                         IF again THEN "UnknownError" ELSE "panic")
                   /\ life' = life
    /\ UNCHANGED <<engineRest, codec, gate>>

\* impl Drop for ObjectBuffer
ApiDrop(b) ==
    /\ bufs[b].alive
    /\ storeA' = IF bufs[b].is_aborted THEN storeA ELSE StoreRelease(storeA, bufs[b].id)
    /\ bufs' = [bufs EXCEPT ![b].alive = FALSE,
                            ![b].released = IF bufs[b].is_aborted THEN @ ELSE @ + 1]
    /\ call' = Call("drop", bufs[b].client, bufs[b].id, b, "Ok")
    /\ UNCHANGED <<engineRest, codec, gate, life>>

NextStore ==
    \/ \E c \in Clients, id \in ApiIds :
          \/ ApiCreate(c, id) \/ ApiCreateAndSeal(c, id) \/ ApiGet(c, id)
          \/ ApiContains(c, id) \/ ApiDelete(c, id)
    \/ \E b \in Handles : ApiSeal(b) \/ ApiWrite(b) \/ ApiDrop(b) \/ ApiAbort(b)

SpecStore == InitStore /\ [][NextStore]_vars

(***************************************************************************)
(* Properties                                                              *)
(***************************************************************************)
IdSet(t) == SeqToSet(PeerReq(t).objects)

\* C1: for every object id, at most one live receiver whose
\* add_to_receiving succeeded has the id among its object_ids
C1_ReceivingExclusive ==
    \A x \in Ids : Cardinality({t \in Tasks : task[t].added /\ x \in IdSet(t)}) <= 1

\* C2: for every object id, at most one live sender with delete_after_send
\* has passed the deletion guard for the id
C2_DeletingExclusive ==
    \A x \in Ids :
        Cardinality({s \in Links : snd[s].passed /\ x \in SeqToSet(object_ids(s))}) <= 1

ReceiverAlive(t) ==
    task[t].pc \in {"prepare_contains", "connect", "read_status",
                    "recv_create", "recv_seal", "shutdown"}
SenderAlive(s) == snd[s].pc \in {"get_objects", "begin", "send", "finish"}

\* C3: right after a receiver is dropped none of its ids is in receiving,
\* right after a delete_after_send sender is dropped none of its ids is in
\* deleting; with no receiver alive receiving is empty, with no sender
\* alive deleting is empty
C3_CleanupOnDrop ==
    /\ [][ /\ \A t \in Tasks :
                task[t].pc # "done" /\ task'[t].pc = "done"
                    => IdSet(t) \cap receiving' = {}
           /\ \A s \in Links :
                delete_after_send(s) /\ snd[s].pc \notin {"done", "served"}
                                     /\ snd'[s].pc \in {"done", "served"}
                    => SeqToSet(object_ids(s)) \cap deleting' = {} ]_vars
    /\ []((\A t \in Tasks : ~ReceiverAlive(t)) => receiving = {})
    /\ []((\A s \in Links : ~SenderAlive(s)) => deleting = {})

\* a receiver that had registered its ids and a TAKE sender that had passed
\* the guard have both been dropped
C3_Witness ==
    /\ \E t \in Tasks : task[t].pc = "done" /\ task[t].connected
    /\ \E s \in Links : delete_after_send(s) /\ snd[s].pc = "served"

\* C4: in a written SYNC response byte i is SUCCESS iff peer task i
\* completed successfully
C4_SuccessIffCompleted ==
    \A c \in Conns :
        disp[c].pc = "done" =>
            \A i \in 1..Len(scen.syncs[c]) :
                disp[c].response[i] = SUCCESS <=> task[<<c, i>>].result.kind = "ok"

\* C5: a SYNC whose only PeerRequest names the server's own address is
\* answered with [PEER_CONNECTION_ERR], and nothing connects to that address
C5_SelfRequestAnswered ==
    \A c \in Conns :
        ( /\ Len(scen.syncs[c]) = 1
          /\ scen.syncs[c][1].from = Self
          /\ disp[c].pc \in {"done", "failed"} )
        => /\ disp[c].response = <<PEER_CONNECTION_ERR>>
           /\ ~task[<<c, 1>>].connected

\* C6: a written SYNC response has one byte per PeerRequest and byte i is
\* the outcome of the i-th PeerRequest's task
C6_ResponseInRequestOrder ==
    \A c \in Conns :
        disp[c].pc = "done" =>
            /\ Len(disp[c].response) = Len(scen.syncs[c])
            /\ \A i \in 1..Len(scen.syncs[c]) :
                 LET r == task[<<c, i>>].result
                     b == disp[c].response[i]
                 IN  /\ r.kind = "ok" => b = SUCCESS
                     /\ r.kind = "panic" => b = PEER_REQUEST_PANICKED
                     /\ r.kind = "err" => b = SyncResponseCode(r.err)

\* a two-byte response whose bytes differ has been written
C6_Witness ==
    \E c \in Conns :
        /\ disp[c].pc = "done"
        /\ Len(disp[c].response) = 2
        /\ disp[c].response[1] # disp[c].response[2]

\* C7: when a receiver's run returns success every id of the receiver is
\* sealed in the local store
C7_SuccessMeansPresent ==
    [][ \A t \in Tasks :
            task[t].pc # "shutdown" /\ task'[t].pc = "shutdown"
                => \A id \in IdSet(t) : StoreContains(storeB', id) ]_vars

\* no other request of the behaviour, on either server, names an id of t
Alone(t) ==
    \A u \in (Tasks \cup Directs) \ {t} :
        SeqToSet(IF u[1] = 0 THEN scen.ext[u[2]].ids ELSE PeerReq(u).objects)
            \cap IdSet(t) = {}

C9_ContentPreserved ==
    [][ \A t \in Tasks :
            ( /\ task[t].pc # "shutdown" /\ task'[t].pc = "shutdown"
              /\ PeerReq(t).from = Peer )
            => \A id \in IdSet(t) :
                  StoreContains(storeB', id) =>
                      /\ storeB'[id].meta = scen.storeA[id].meta
                      /\ storeB'[id].data = scen.storeA[id].data ]_vars

\* scenario 7: two SYNC [COPY from=A, ids=[X]] to B, A holding X, B not
DuplicateSyncs ==
    /\ scen.syncs = << <<Copy(Peer, <<"X">>)>>, <<Copy(Peer, <<"X">>)>> >>
    /\ scen.ext = <<>>
    /\ StoreContains(scen.storeA, "X")
    /\ ~StoreContains(scen.storeB, "X")

\* C10: of two simultaneous SYNC [COPY from=A, ids=[X]] exactly one is
\* answered [SUCCESS], the other [OB_ALREADY_RECEIVING_ERR] or
\* [OB_ALREADY_IN_STORE_ERR], and B ends with X present
C10_OneOfTwoSucceeds ==
    ( /\ DuplicateSyncs
      /\ faults = 0
      /\ disp[1].pc = "done" /\ disp[2].pc = "done" )
    => /\ \E c \in {1, 2} :
            /\ disp[c].response = <<SUCCESS>>
            /\ disp[3 - c].response \in {<<OB_ALREADY_RECEIVING_ERR>>,
                                          <<OB_ALREADY_IN_STORE_ERR>>}
       /\ StoreContains(storeB, "X")

\* both responses of the scenario have been written
C10_Witness ==
    /\ DuplicateSyncs
    /\ faults = 0
    /\ disp[1].pc = "done" /\ disp[2].pc = "done"
    /\ disp[2].response = <<OB_ALREADY_IN_STORE_ERR>>

\* Dispatcher-visible outcome of a task whose prepare failed with error e:
\* no connection, no byte on the wire, A's handler never started
PrepareFailed(tk, e) ==
    /\ tk.pc = "done"
    /\ tk.result = ErrResult(SyncErr("ReceiverError", RecvErr(e, 0)))
    /\ ~tk.connected

\* C11: a prepare that finds an id in receiving ends the task with
\* AlreadyReceiving, one that finds an id sealed in the local store ends it
\* with AlreadyInStore; such a task never connects to the peer, no byte flows
\* on its connection, and its response byte is 0x80 or 0x81 respectively
C11_PrepareFailureSilent ==
    /\ [][ \A t \in Tasks :
             /\ ( /\ task[t].pc = "prepare_add" /\ task'[t] # task[t]
                  /\ IdSet(t) \cap receiving # {} )
                => PrepareFailed(task'[t], "AlreadyReceiving")
             /\ ( /\ task[t].pc = "prepare_contains" /\ task'[t] # task[t]
                  /\ faults' = faults
                  /\ \E id \in IdSet(t) : StoreContains(storeB, id) )
                => PrepareFailed(task'[t], "AlreadyInStore") ]_vars
    /\ [](\A t \in Tasks :
            \A e \in {"AlreadyReceiving", "AlreadyInStore"} :
                PrepareFailed(task[t], e) =>
                    /\ wire[t] = NewWire
                    /\ PeerReq(t).from = Peer => snd[t].pc = "idle"
                    /\ disp[t[1]].pc = "done" =>
                          disp[t[1]].response[t[2]] =
                              (IF e = "AlreadyReceiving" THEN 128 ELSE 129))

\* both kinds of prepare failure have been answered
C11_Witness ==
    /\ \E t \in Tasks : /\ PrepareFailed(task[t], "AlreadyReceiving")
                        /\ disp[t[1]].pc = "done"
                        /\ disp[t[1]].response[t[2]] = 128
                        /\ wire[t].buf = <<>>
    /\ \E t \in Tasks : PrepareFailed(task[t], "AlreadyInStore") /\ wire[t].buf = <<>>

\* the object, as server A's store holds it at the start, is over a limit
Oversize(ob) ==
    \/ BufLen(ob.meta) > MAX_META_SIZE
    \/ U48Greater(Len48(ob.data), MAX_DATA_SIZE, 6)

HasOversize(s) ==
    \E id \in SeqToSet(object_ids(s)) :
        StoreContains(scen.storeA, id) /\ Oversize(scen.storeA[id])

SizeErrors == {"ObjectMetaTooLarge", "ObjectDataTooLarge"}

IdLists(request) ==
    IF request.type = "SYNC"
    THEN [k \in 1..Len(request.peers) |-> request.peers[k].objects]
    ELSE <<request.objects>>

\* no object id occurs twice anywhere in the lists: not within one list, and
\* not in two of them
NoIdTwice(lists) ==
    /\ \A k \in 1..Len(lists) : Cardinality(SeqToSet(lists[k])) = Len(lists[k])
    /\ \A j, k \in 1..Len(lists) :
          j < k => \A i \in 1..Len(lists[j]), m \in 1..Len(lists[k]) :
                       lists[j][i] # lists[k][m]

Acceptable(request) ==
    LET lists == IdLists(request)
    IN  /\ request.type = "SYNC" => Len(request.peers) \in 1..1024
        /\ \A k \in 1..Len(lists) : Len(lists[k]) \in 1..65536
        /\ NoIdTwice(lists)

\* C13: validate accepts a SYNC iff it has 1 to 1024 PeerRequests, each with
\* 1 to 65,536 ids, and no id occurs twice in all its lists together; it
\* accepts a COPY or TAKE iff its list has 1 to 65,536 ids and no duplicate
C13_ValidateAccepts ==
    hnd.pc = "validated" => (hnd.verdict = "ok" <=> Acceptable(hnd.request))

\* a SYNC of 1024 PeerRequests has been accepted
C13_Witness ==
    /\ hnd.pc = "validated"
    /\ hnd.request.type = "SYNC"
    /\ Len(hnd.request.peers) = 1024
    /\ hnd.verdict = "ok"

\* C14: for every byte stream from which read_from parses a request (peer
\* addresses being IPv4), write_into of that request produces exactly the bytes
\* that read_from consumed.
C14_ReadWriteRoundTrip ==
    echo.done => /\ echo.request # NoRequest
                 /\ echo.bytes = echo.consumed

\* a SYNC request with two peer requests has been parsed and written back, with
\* nothing of the stream left over
C14_Witness ==
    /\ echo.done
    /\ echo.request.type = "SYNC"
    /\ Len(echo.request.peers) = 2
    /\ echo.request.peers[1].from # echo.request.peers[2].from
    /\ BufLen(echo.bytes) = BufLen(sent)

\* the other peer tasks of the SYNC of task t
Siblings(t) == {u \in Tasks : u[1] = t[1] /\ u # t}

\* task t ends in this step with an error or a panic
TaskFails(t) ==
    /\ task[t].pc # "done"
    /\ task'[t].pc = "done"
    /\ task'[t].result.kind \in {"err", "panic"}

\* the part of a store or of `receiving` that belongs to the objects of task u
OfTask(store, rcv, u) ==
    <<[oid \in SeqToSet(PeerReq(u).objects) |-> store[oid]],
      rcv \cap SeqToSet(PeerReq(u).objects)>>

\* C15: a failure or a panic of one peer task of a SYNC changes only the
\* response byte of that task (0x62 for a panic, the response code of the
\* error otherwise): the step in which it fails leaves the other tasks of the
\* SYNC, their connections, their objects and the dispatcher as they are; the
\* dispatcher fails only on a self address or on the write to the client; and
\* once all tasks are done the response holds for each task the byte of its own
\* result and the handler goes on to read the next request.
C15_TaskFailureIsolated ==
    /\ [][\A t \in Tasks : TaskFails(t) =>
              /\ disp' = disp
              /\ \A u \in Siblings(t) :
                    /\ task'[u] = task[u]
                    /\ wire'[u] = wire[u]
                    /\ OfTask(storeB', receiving', u) = OfTask(storeB, receiving, u)]_vars
    /\ [](\A c \in Conns :
            /\ disp[c].pc = "failed" =>
                  /\ disp[c].err \in {"PeerAddressIsSelf", "ClientConnectionError"}
                  /\ disp[c].handler = "returned_err"
            /\ disp[c].pc = "done" =>
                  /\ disp[c].handler = "reading"
                  /\ Len(disp[c].response) = Len(scen.syncs[c])
                  /\ \A i \in 1..Len(scen.syncs[c]) :
                        LET result == task[<<c, i>>].result
                        IN  /\ task[<<c, i>>].pc = "done"
                            /\ result.kind = "panic" =>
                                  disp[c].response[i] = PEER_REQUEST_PANICKED
                            /\ result.kind = "err" =>
                                  disp[c].response[i] = SyncResponseCode(result.err)
                            /\ result.kind = "ok" => disp[c].response[i] = SUCCESS)

\* the first task of a SYNC of two panicked, the second moved its object, and
\* the handler is reading the next request
C15_Witness ==
    \E c \in Conns :
        /\ disp[c].handler = "reading"
        /\ disp[c].response = <<PEER_REQUEST_PANICKED, SUCCESS>>
        /\ task[<<c, 1>>].result.kind = "panic"

Waits(n) == [k \in 1..n |-> k]

\* C17: Listener.accept retries a failing accept after waits of 1 s, 2 s, 3 s
\* and 4 s, in that order, and returns the error on the fifth failure in a row;
\* an attempt that succeeds returns the socket at any point, and the next call
\* counts from the start again.
C17_AcceptBackoff ==
    /\ [](listener.pc \in {"accept", "sleep", "failed"} =>
             /\ listener.backoff \in 1..5
             /\ listener.slept = Waits(listener.backoff - 1))
    /\ [](listener.pc = "failed" => listener.slept = <<1, 2, 3, 4>>)
    /\ [](listener.pc = "sleep" => listener.backoff <= 4)
    /\ [](listener.pc = "accept" =>
             \A h \in Slots :
                 (handlers[h] = "none" /\ \A g \in 1..(h - 1) : handlers[g] # "none")
                     => ENABLED AcceptOk(h))
    /\ [][\A h \in Slots : handlers[h] = "none" /\ handlers'[h] = "running" =>
              listener.pc = "accept" /\ listener'.pc = "acquire"]_vars
    /\ [][listener.pc = "acquire" /\ listener'.pc = "accept" =>
              listener'.backoff = 1 /\ listener'.slept = <<>>]_vars

\* an accept fails for the fifth time in a row after an earlier connection
\* was accepted
C17_Witness ==
    /\ listener.pc = "failed"
    /\ listener.slept = <<1, 2, 3, 4>>
    /\ \E h \in Slots : handlers[h] # "none"

\* the call made in this step is op on buffer b
CallOn(op, b) == call'.op = op /\ call'.buf = b

\* C18: on a buffer returned by create the first seal succeeds and makes the
\* buffer immutable; every later seal on it, and every seal on a buffer
\* returned by get, fails and leaves the object sealed and as it was.
C18_SealOnce ==
    /\ [][\A b \in Handles : CallOn("seal", b) =>
              LET id == bufs[b].id
              IN  IF bufs[b].origin = "create" /\ life[id] = "created"
                  THEN /\ call'.res = "Ok"
                       /\ ~bufs'[b].is_mutable
                       /\ storeA'[id].state = "sealed"
                       /\ storeA'[id].data = storeA[id].data
                       /\ storeA'[id].meta = storeA[id].meta
                  ELSE /\ call'.res = "AlreadySealed"
                       /\ storeA[id].state = "sealed"
                       /\ storeA' = storeA
                       /\ bufs' = bufs]_vars
    /\ [][\A b \in Handles : CallOn("data_mut", b) /\ ~bufs[b].is_mutable =>
              call'.res = "panic" /\ storeA' = storeA]_vars
    /\ [](\A b \in Handles : bufs[b].alive =>
              (bufs[b].is_mutable <=>
                  bufs[b].origin = "create" /\ storeA[bufs[b].id].state = "created"))

\* a second seal on a buffer returned by create has failed
C18_Witness ==
    /\ call.op = "seal"
    /\ call.res = "AlreadySealed"
    /\ bufs[call.buf].origin = "create"
    /\ ~bufs[call.buf].is_mutable
    /\ storeA[call.id].state = "sealed"

\* the store shows the object to the client of the last call
Shown == (call.op = "contains" /\ call.res = "true") \/ (call.op = "get" /\ call.res = "Some")
Asked == call.op \in {"contains", "get"}

\* C19 as stated: a client is shown an id iff the object has been created and
\* sealed and no delete of it has been called since.
C19_VisibleIffSealedNotDeleted ==
    Asked => (Shown <=> life[call.id] = "sealed")

\* C19: a client is shown an id if the object has been created and sealed and
\* no delete of it has been called since, and is not shown it if the object
\* was never created, is created but not sealed, or was deleted while no
\* buffer of it was held (a delete called while a buffer is held may leave the
\* object in the store); create and create_and_seal on an id that is created
\* or sealed fail and leave the object as it is.
C19_VisibleIffSealedAndNotRemoved ==
    /\ [](Asked => /\ life[call.id] = "sealed" => Shown
                   /\ life[call.id] \in {"none", "created", "deleted"} => ~Shown)
    /\ [][call'.op \in {"create", "create_and_seal"} /\ call' # call
              /\ life[call'.id] \in {"created", "sealed"}
          => /\ call'.res = "AlreadyExists"
             /\ storeA' = storeA
             /\ bufs' = bufs]_vars

\* client 2 has been told that an object which client 1 sealed and then
\* deleted is not in the store
C19_Witness ==
    /\ call = Call("contains", 2, "X", 0, "false")
    /\ life["X"] = "deleted"
    /\ \E b \in Handles : bufs[b].client = 1 /\ bufs[b].origin = "create"

\* C20: `receiving` is exactly the union of the object_ids of the receivers
\* whose add_to_receiving succeeded and that have not been dropped yet
C20_ReceivingIsUnionOfLive ==
    receiving = UNION {IdSet(t) : t \in {u \in Tasks : task[u].added}}

\* the ids of the request served on link s
LinkIds(s) == SeqToSet(object_ids(s))

\* C21: `deleting` is exactly the union of the object_ids of the senders with
\* delete_after_send that passed the deletion guard and have not been dropped
C21_DeletingIsUnionOfLive ==
    deleting = UNION {LinkIds(s) : s \in {u \in Links : snd[u].passed}}

PastSizeGuard == {s \in Links : snd[s].pc \in {"begin", "send", "finish", "served"}}

\* C23: for every object that passed the sender's size guard, the header the
\* sender writes decodes at the receiver to the object's metadata and data
\* lengths
C23_HeaderRoundTrip ==
    \A s \in PastSizeGuard : \A k \in 1..Len(snd[s].objects) :
        LET ob == snd[s].objects[k]
            h  == DecodeHeader(HeaderBytes(BufLen(ob.meta), BufLen(ob.data)))
        IN  /\ h.meta_size = BufLen(ob.meta)
            /\ h.data_size = Len48(ob.data)

\* C24: for every request that validate accepts, write_into followed by
\* read_from gives an equal request: every list comes back with the number of
\* ids it had, and none of the bytes is left over
C24_WriteReadRoundTrip ==
    hnd.pc = "read_back" => /\ hnd.same
                            /\ hnd.back = Shape(RequestOf(hnd.request))
                            /\ hnd.left = 0

\* the status bytes a sender may answer with
SendErrorCodes ==
    {OB_DELETION_SCHEDULED_ERR, OB_NOT_FOUND_ERR, OB_META_TOO_LARGE_ERR,
     OB_DATA_TOO_LARGE_ERR, PLASMA_STORE_ERR}

\* C25: a sender writes an error code only when its run fails before BEGIN,
\* as the only byte it writes; BEGIN is the first byte it writes otherwise, and
\* a run that fails at the write of BEGIN or after it writes no status byte
C25_BeginOrCode ==
    [][\A s \in Links : snd'[s] # snd[s] =>
          IF snd[s].pc \in {"check_deleting", "get_objects"}
          THEN \/ wire'[s].buf = wire[s].buf
               \/ /\ snd'[s].pc = "done"
                  /\ \E code \in SendErrorCodes :
                        /\ code = SendResponseCode(snd'[s].err)
                        /\ wire'[s].buf = Cat(wire[s].buf, Run(code, 1))
          ELSE IF snd[s].pc = "begin"
          THEN \/ snd'[s].pc = "send" /\ wire'[s].buf = Cat(wire[s].buf, Run(BEGIN, 1))
               \/ snd'[s].pc = "done" /\ wire'[s].buf = wire[s].buf
          ELSE snd'[s].pc = "done" => wire'[s].buf = wire[s].buf]_vars

\* one sender has answered with the code of ObjectDeletionScheduled alone,
\* another has written BEGIN and then failed
C25_Witness ==
    \E s, u \in Links :
        /\ snd[s].err = "ObjectDeletionScheduled"
        /\ wire[s].buf = Run(OB_DELETION_SCHEDULED_ERR, 1)
        /\ snd[u].err = "ConnectionError"
        /\ wire[u].buf # <<>>
        /\ ByteAt(wire[u].buf, 0) = BEGIN

\* this step deletes id from the source store, at once or as soon as the
\* buffers on it are released
DeletedHere(id) ==
    /\ StoreContains(storeA, id)
    /\ ~storeA[id].del
    /\ ~StoreContains(storeA', id) \/ storeA'[id].del

\* C26: a sender deletes an object of the source store only if it has
\* delete_after_send, the object is one of its ids, and BEGIN and all of its
\* objects have been written; a sender whose run fails deletes nothing
C26_DeleteOnlyAfterSend ==
    [][\A s \in Links : \A id \in Ids :
          snd'[s] # snd[s] /\ DeletedHere(id) =>
              /\ delete_after_send(s)
              /\ id \in LinkIds(s)
              /\ snd[s].pc = "finish"
              /\ snd[s].i = Len(snd[s].objects)
              /\ snd'[s].pc = "served"]_vars

\* a TAKE sender has failed after BEGIN, another has sent and deleted
C26_Witness ==
    \E s, u \in Links :
        /\ delete_after_send(s)
        /\ snd[s].err = "ConnectionError"
        /\ wire[s].buf # <<>>
        /\ snd[u].pc = "served"
        /\ snd[u].deleted
        /\ \A id \in LinkIds(u) : ~StoreContains(storeA, id)

\* the run of receiver t returns an error in this step, from the receive loop
RunFails(t) ==
    /\ task[t].pc \in {"recv_create", "recv_seal"}
    /\ task'[t].pc = "done"
    /\ task'[t].result.kind = "err"

\* C27: when the run of a receiver fails at the object of index i, the store
\* contains none of its ids of index up to i when run returns, and no object
\* of a higher index has been created for it
C27_FailedRunLeavesNothing ==
    [][\A t \in Tasks : RunFails(t) =>
          LET ids == PeerReq(t).objects
              i   == task[t].idx
          IN  /\ \A j \in 1..i : ~StoreContains(storeB', ids[j])
              /\ \A j \in (i + 1)..Len(ids) :
                    \/ storeB'[ids[j]].state = "absent"
                    \/ scen.storeB[ids[j]].state # "absent"
                    \/ \E u \in Tasks \ {t} : ids[j] \in IdSet(u)]_vars

\* some peer request of the SYNC on connection c names the server itself
NamesSelf(c) == \E i \in 1..Len(scen.syncs[c]) : scen.syncs[c][i].from = Self

\* C28: for a SYNC of which a peer request names the server's own address no
\* task is spawned and no connection is opened, for any of its peer requests;
\* `receiving` and the local store stay as they were
C28_SelfSpawnsNothing ==
    \A c \in Conns : NamesSelf(c) =>
        /\ \A i \in 1..Len(scen.syncs[c]) :
              /\ task[<<c, i>>] = NewTask
              /\ wire[<<c, i>>] = NewWire
        /\ Len(scen.syncs) = 1 => receiving = {} /\ storeB = scen.storeB

\* the SYNC [COPY from=A, COPY from=B] sent to B has been turned down
C28_Witness ==
    \E c \in Conns :
        /\ Len(scen.syncs[c]) = 2
        /\ scen.syncs[c][1].from = Peer
        /\ scen.syncs[c][2].from = Self
        /\ disp[c].err = "PeerAddressIsSelf"

\* C29: when the response of a SYNC is written, every task spawned for it
\* has ended and its receiver is dropped: what `receiving` holds belongs to
\* the receivers of other SYNC requests
C29_ResponseAfterTasks ==
    \A c \in Conns : disp[c].response # <<>> =>
        /\ \A i \in 1..Len(scen.syncs[c]) :
              /\ task[<<c, i>>].pc = "done"
              /\ task[<<c, i>>].result.kind # "none"
              /\ ~task[<<c, i>>].added
        /\ \A x \in receiving :
              \E t \in Tasks : t[1] # c /\ task[t].added /\ x \in IdSet(t)

\* the response of a SYNC is written while the receiver of another SYNC is
\* at work
C29_Witness ==
    \E c \in Conns :
        /\ disp[c].response # <<>>
        /\ \E t \in Tasks : t[1] # c /\ task[t].added /\ task[t].pc = "recv_seal"

\* the errors of a sender that fails before BEGIN
BeforeBegin ==
    {"ObjectDeletionScheduled", "ObjectsNotFound", "ObjectMetaTooLarge", "ObjectDataTooLarge",
     "StoreError"}

\* C30: in a written SYNC response the byte of a peer request that failed at
\* the sender of the peer before BEGIN is 0x70 (deletion scheduled), 0x71
\* (missing), 0x50 or 0x51 (metadata or data too large) or 0x61 (store error
\* at the peer); the byte of a local store error is 0x60; that of a failed
\* connect, a failed write of the request or a broken reply stream is 0x90
C30_ResponseBytes ==
    \A c \in Conns : disp[c].response # <<>> =>
        \A i \in 1..Len(scen.syncs[c]) :
            LET t == <<c, i>>
                r == task[t].result
                b == disp[c].response[i]
            IN  /\ ( /\ t \in Links
                     /\ snd[t].err \in BeforeBegin
                     /\ ~wire[t].broken )
                   => b = CASE snd[t].err = "ObjectDeletionScheduled" -> 112
                            [] snd[t].err = "ObjectsNotFound"         -> 113
                            [] snd[t].err = "ObjectMetaTooLarge"      -> 80
                            [] snd[t].err = "ObjectDataTooLarge"      -> 81
                            [] snd[t].err = "StoreError"              -> 97
                /\ r.kind = "err" /\ r.err.s = "ReceiverError" /\ r.err.r.e = "StoreError"
                   => b = 96
                /\ ( /\ r.kind = "err"
                     /\ \/ r.err.s \in {"PeerConnectionFailed", "PeerRequestNotSent"}
                        \/ r.err.s = "ReceiverError" /\ r.err.r.e = "ConnectionError" )
                   => b = 144

\* the store of the peer has failed at get_many, and the response says 0x61
C30_Witness ==
    \E c \in Conns : \E i \in 1..Len(scen.syncs[c]) :
        /\ disp[c].response # <<>>
        /\ <<c, i>> \in Links
        /\ snd[<<c, i>>].err = "StoreError"
        /\ disp[c].response[i] = PEER_PLASMA_STORE_ERR

\* C31: for a request that fails validation the handler builds no sender,
\* no receiver and no dispatcher, writes nothing to the socket, and leaves
\* the local store, `receiving` and `deleting` as they were
C31_InvalidRequestBuildsNothing ==
    hnd.verdict \notin {"none", "ok"} =>
        /\ hnd.pc = "failed"
        /\ snd = <<>> /\ disp = <<>> /\ task = <<>>
        /\ wire = <<>>
        /\ storeA = EmptyStore /\ storeB = EmptyStore
        /\ receiving = {} /\ deleting = {}

\* a request that names an object id twice has been read and turned down
C31_Witness ==
    /\ hnd.pc = "failed"
    /\ hnd.verdict = "DuplicateObjectIds"
    /\ hnd.request.type \in {"COPY", "TAKE"}

\* the 16-bit little-endian count at offset k of the stream the client sent
CountAt(k) == ByteAt(sent, k) + 256 * ByteAt(sent, k + 1)

\* C32: a stream that ends before the request-type byte closes the
\* connection with no error; a stream that ends inside a frame is an error;
\* a type byte other than SYNC, COPY, TAKE fails with InvalidRequestType; in a
\* SYNC a peer request type other than COPY, TAKE fails with
\* InvalidPeerRequestType and an address family other than IPv4, IPv6 with
\* InvalidPeerAddressType
C32_ReadOutcomes ==
    hnd.pc # "read" =>
        /\ BufLen(sent) = 0 => hnd.pc = "closed" /\ hnd.err = "none"
        /\ BufLen(sent) >= 1 /\ ByteAt(sent, 0) \notin {SYNC_TYPE_ID, COPY_TYPE_ID, TAKE_TYPE_ID}
              => hnd.pc = "failed" /\ hnd.err = "InvalidRequestType"
        /\ BufLen(sent) >= 3 /\ ByteAt(sent, 0) \in {COPY_TYPE_ID, TAKE_TYPE_ID}
              /\ BufLen(sent) < 3 + OBJECT_ID_BYTES * CountAt(1)
              => hnd.pc = "failed" /\ hnd.err = "UnexpectedEof"
        /\ BufLen(sent) = 3 /\ ByteAt(sent, 0) = SYNC_TYPE_ID /\ CountAt(1) >= 1
              => hnd.pc = "failed" /\ hnd.err = "UnexpectedEof"
        /\ BufLen(sent) >= 4 /\ ByteAt(sent, 0) = SYNC_TYPE_ID /\ CountAt(1) >= 1
              /\ ByteAt(sent, 3) \notin {COPY_TYPE_ID, TAKE_TYPE_ID}
              => hnd.pc = "failed" /\ hnd.err = "InvalidPeerRequestType"
        /\ BufLen(sent) >= 7 /\ ByteAt(sent, 0) = SYNC_TYPE_ID /\ CountAt(1) >= 1
              /\ ByteAt(sent, 3) \in {COPY_TYPE_ID, TAKE_TYPE_ID}
              /\ ByteAt(sent, 4) \notin {IPV4_TYPE_ID, IPV6_TYPE_ID}
              => hnd.pc = "failed" /\ hnd.err = "InvalidPeerAddressType"

\* a SYNC whose first peer request names an unknown address family has been
\* read
C32_Witness ==
    /\ hnd.pc = "failed"
    /\ hnd.err = "InvalidPeerAddressType"
    /\ ByteAt(sent, 0) = SYNC_TYPE_ID
    /\ ByteAt(sent, 4) = 5

\* a stream that ends after the count of a COPY that announces ids
C32_WitnessEof ==
    /\ hnd.pc = "failed"
    /\ hnd.err = "UnexpectedEof"
    /\ ByteAt(sent, 0) = COPY_TYPE_ID
    /\ BufLen(sent) = 3

\* the sender or the dispatcher built for the last request, if any, has
\* returned an error
RunFailed ==
    \/ snd # <<>> /\ snd[<<0, 1>>].pc = "done"
    \/ disp # <<>> /\ disp[1].pc = "failed"

\* the sender or the dispatcher built for the last request has returned Ok
RunSucceeded ==
    \/ snd # <<>> /\ snd[<<0, 1>>].pc = "served"
    \/ disp # <<>> /\ disp[1].pc = "done"

\* C33: a handler reads the next request of its connection only after the
\* sender or dispatcher of the previous one has returned Ok, and after any
\* sender or dispatcher error, also one raised before BEGIN, it has
\* returned and reads nothing more
C33_OneRequestAtATime ==
    /\ [](RunFailed => hnd.pc = "failed" /\ hnd.err \in SenderErrors \cup DispatcherErrors)
    /\ [](hnd.pc \in {"read", "validate", "process"} /\ (snd # <<>> \/ disp # <<>>)
             => RunSucceeded)
    /\ [](hnd.pc = "processing" => ~RunFailed /\ ~RunSucceeded)
    /\ [][sock' # sock => ~RunFailed /\ hnd.pc = "read"]_vars

\* the sender of a COPY failed with ObjectsNotFound while the next request
\* was waiting in the socket, and the handler has returned
C33_Witness ==
    /\ hnd.pc = "failed"
    /\ hnd.err = "ObjectsNotFound"
    /\ snd # <<>> /\ snd[<<0, 1>>].err = "ObjectsNotFound"
    /\ BufLen(sock) > 0

\* a second request is being read after the first was served
C33_WitnessNext ==
    /\ hnd.pc = "read"
    /\ RunSucceeded
    /\ BufLen(sock) > 0

\* 1 while the listener holds a forgotten permit and is in accept
InAccept == IF listener.pc \in {"accept", "sleep"} THEN 1 ELSE 0

Outside == {"prepare_contains", "connect", "receive", "store", "get_objects", "send",
            "delete_many"}

\* C35: no task holds the guard of `receiving` or of `deleting` at a store
\* call, at socket I/O or at any other suspension point, no task holds both
\* guards at once, and the tasks never block one another for good on the
\* two mutexes: a held guard is always about to be released, and while a
\* task has work left some step can be taken
C35_LocksOnlyInSections ==
    /\ \A w \in Workers :
          /\ (locks.receiving = w \/ locks.deleting = w) =>
                Pc(w) \in {"add_to_receiving", "in_check_deleting", "dropping"}
          /\ ~(locks.receiving = w /\ locks.deleting = w)
          /\ Pc(w) \in Outside \cup {"drop", "done", "prepare_add", "check_deleting"} =>
                locks.receiving # w /\ locks.deleting # w
    /\ locks.receiving # Nobody =>
          ENABLED (AddToReceivingSection(locks.receiving) \/ DropSection(locks.receiving))
    /\ locks.deleting # Nobody =>
          ENABLED (CheckDeletingSection(locks.deleting) \/ DropSection(locks.deleting))
    /\ (\E w \in Workers : Pc(w) # "done") => ENABLED NextLocks

\* a receiver waits for the mutex that another receiver holds while a sender
\* is writing to its socket
C35_Witness ==
    \E t, u \in Tasks, s \in Directs :
        /\ locks.receiving = t
        /\ task[u].pc = "drop"
        /\ task[t].pc = "dropping"
        /\ snd[s].pc = "send"

\* the TAKE peer request of task t has ended on both servers
TakeEnded(t) ==
    /\ PeerReq(t).type = "TAKE"
    /\ task[t].pc = "done"
    /\ t \in Links => snd[t].pc \in {"done", "served"}

\* C36: once a TAKE peer request has ended, with SUCCESS or with an error,
\* every requested object that was sealed in the source store before it is
\* sealed in the source store or in the destination store
C36_TakeLosesNothing ==
    \A t \in Tasks :
        TakeEnded(t) =>
            \A id \in SeqToSet(PeerReq(t).objects) :
                StoreContains(scen.storeA, id) =>
                    StoreContains(storeA, id) \/ StoreContains(storeB, id)

\* the ids of the objects that receiver t has created in its run so far
CreatedBy(t) ==
    {PeerReq(t).objects[j] :
        j \in 1..(IF task[t].pc = "recv_seal" THEN task[t].idx ELSE task[t].idx - 1)}

\* C37: the rollback of a failing receiver run touches only objects that this
\* receiver created during the run: an object that another receiver or a
\* client created and sealed is left as it is, also when the run failed
\* because the create of that id was refused
C37_RollbackOnlyOwn ==
    [][\A t \in Tasks : RunFails(t) =>
          \A id \in Ids : storeB'[id] # storeB[id] => id \in CreatedBy(t)]_vars

\* the run of receiver t has ended
RunEnded(t) == task[t].pc = "done" /\ task[t].connected

\* C38: once the run of a receiver has ended, with success or with a
\* failure, the local store holds no object that is created but not sealed
\* under any of the receiver's ids
C38_NothingLeftUnsealed ==
    \A t \in Tasks :
        RunEnded(t) =>
            \A id \in SeqToSet(PeerReq(t).objects) :
                \/ storeB[id].state # "created"
                \/ \E u \in Tasks \ {t} : task[u].pc = "recv_seal" /\ id \in IdSet(u)

\* C39: the store reference of every ObjectBuffer is released exactly once
\* over its lifetime: not while the buffer lives, and once by the time it is
\* gone, whether it was dropped, dropped after a seal, or given to abort
C39_ReleasedExactlyOnce ==
    \A b \in Handles :
        /\ bufs[b].alive => bufs[b].released = 0
        /\ ~bufs[b].alive => bufs[b].released = 1

\* the dispatcher of connection c has written its response, one byte for
\* each peer request, or the write to the client has failed
Responded(c) ==
    \/ disp[c].pc = "done" /\ Len(disp[c].response) = Len(scen.syncs[c])
    \/ disp[c].pc = "failed" /\ disp[c].err = "ClientConnectionError"

\* C40: every SYNC that names no self address eventually has its response
\* written, if the client socket can be written to, when every ready task is
\* run and every contacted peer goes on until it has answered or closed
C40_ResponseEventuallyWritten ==
    <>(\A c \in Conns : NamesSelf(c) \/ Responded(c))

\* the response of a SYNC was written after its peer answered BEGIN and
\* closed the connection without sending the object
C40_Witness ==
    \E c \in Conns :
        /\ ~NamesSelf(c)
        /\ scen.syncs[c][1].from = Foreign
        /\ disp[c].pc = "done"
        /\ disp[c].response = <<PEER_CONNECTION_ERR>>
        /\ ~wire[<<c, 1>>].broken
====
